---- MODULE Spec2Model ----
(***************************************************************************)
(* Model of the mmispoc ordering backend: the signed access token          *)
(* (generateToken / ValidateAccessToken), the credential store, the HTTP   *)
(* endpoints (login, sign-up, profile, order listing, order creation) and  *)
(* the order and account services under concurrent calls.                  *)
(*                                                                         *)
(* Conventions.                                                            *)
(*  - Time is a pair (now, nsec): unix seconds and sub-second ticks, with  *)
(*    SubSec ticks per second.  Durations are counted in ticks.            *)
(*  - A Go string is a sequence of one-character strings.                  *)
(*  - A token text is the sequence of its "."-separated segments, so       *)
(*    strings.Split(token, ".") is the sequence itself.                    *)
(*  - A base64url segment is [bytes, variant, tail]: bytes are the bytes   *)
(*    carried by the complete 4-character groups (kept symbolic, since     *)
(*    4 characters <-> 3 bytes is a bijection there), variant tells how    *)
(*    that text is spelled, and tail is the trailing partial group as      *)
(*    ASCII codes, decoded bit by bit as encoding/base64 does.             *)
(*  - HMAC-SHA256 is a keyed function whose first 30 bytes are injective   *)
(*    in (key, message) and whose last sha256.Size % 3 = 2 bytes are a     *)
(*    16-bit digest.                                                       *)
(*  - The relational store answers every query; the one storage fault     *)
(*    modelled is a failing INSERT or COMMIT inside CreateBulk.            *)
(***************************************************************************)
EXTENDS Integers, Sequences, FiniteSets, TLC

VARIABLES
    users,        \* rows of the users table
    restaurants,  \* the restaurants table: id -> name
    ingredients,  \* ids of the ingredients table
    orders,       \* rows of the orders table, in id order
    now,          \* time.Now().Unix()
    nsec,         \* sub-second ticks of time.Now()
    tokenTTL,     \* UserService.tokenTTL, in ticks
    issued,       \* log of generateToken calls: [token, uid, iat, exp]
    req,          \* the last HTTP request served
    resp,         \* its response
    tok,          \* a token text handed to ValidateAccessToken
    res,          \* what ValidateAccessToken, or the service call that returned last, gave
    proc          \* service calls in progress: caller -> its position and locals

vars == <<users, restaurants, ingredients, orders, now, nsec, tokenTTL, issued, req, resp,
          tok, res, proc>>

(***************************************************************************)
(* Bounds of the model.                                                    *)
(***************************************************************************)
MaxNow == 3
SubSec == 2
MaxIssued == 1
MaxLogins == 2
MaxOrders == 4
MaxUsers == 3

(***************************************************************************)
(* Program constants.                                                      *)
(***************************************************************************)
defaultTokenTTLSeconds == 900
Sha256Size == 32
StatusOK == 200
StatusBadRequest == 400
StatusUnauthorized == 401
StatusForbidden == 403
StatusNotFound == 404
StatusMethodNotAllowed == 405
StatusCreated == 201
StatusConflict == 409
StatusInternalServerError == 500

defaultTokenTTL == defaultTokenTTLSeconds * SubSec

tokenSecret == "dev-secret"
otherSecret == "not-the-secret"

(***************************************************************************)
(* strconv.FormatInt / strconv.ParseInt, base 10.                          *)
(***************************************************************************)
Digits == <<"0", "1", "2", "3", "4", "5", "6", "7", "8", "9">>

DigitVal(c) == CHOOSE d \in 0..9 : Digits[d + 1] = c

IsDigit(c) == \E d \in 0..9 : Digits[d + 1] = c

RECURSIVE FormatNat(_)
FormatNat(n) == IF n < 10 THEN <<Digits[n + 1]>>
                ELSE FormatNat(n \div 10) \o <<Digits[(n % 10) + 1]>>

FormatInt(n) == IF n < 0 THEN <<"-">> \o FormatNat(0 - n) ELSE FormatNat(n)

RECURSIVE DigitsVal(_, _)
DigitsVal(s, acc) == IF s = <<>> THEN acc
                     ELSE DigitsVal(Tail(s), acc * 10 + DigitVal(Head(s)))

\* [ok, v]: ok is FALSE on a syntax error (empty, sign only, a non-digit).
ParseInt(s) ==
    LET neg == s # <<>> /\ Head(s) = "-"
        signed == s # <<>> /\ (Head(s) = "-" \/ Head(s) = "+")
        body == IF signed THEN Tail(s) ELSE s
    IN  IF body = <<>> \/ \E i \in 1..Len(body) : ~IsDigit(body[i])
        THEN [ok |-> FALSE, v |-> 0]
        ELSE [ok |-> TRUE,
              v |-> IF neg THEN 0 - DigitsVal(body, 0) ELSE DigitsVal(body, 0)]

(***************************************************************************)
(* encoding/base64, RawURLEncoding: the alphabet and the trailing group.   *)
(***************************************************************************)
B64Index(c) ==
    IF c >= 65 /\ c <= 90 THEN c - 65
    ELSE IF c >= 97 /\ c <= 122 THEN c - 71
    ELSE IF c >= 48 /\ c <= 57 THEN c + 4
    ELSE IF c = 45 THEN 62
    ELSE IF c = 95 THEN 63
    ELSE 0 - 1

B64Char(i) ==
    IF i < 26 THEN i + 65
    ELSE IF i < 52 THEN i + 71
    ELSE IF i < 62 THEN i - 4
    ELSE IF i = 62 THEN 45
    ELSE 95

\* The characters that end the MAC: sha256.Size % 3 bytes after the full groups.
TailBytes == Sha256Size % 3

\* EncodeToString of the last TailBytes = 2 bytes v: 16 bits and 2 zero bits.
EncodeTail(v) ==
    <<B64Char((v * 4) \div 4096), B64Char(((v * 4) \div 64) % 64), B64Char((v * 4) % 64)>>

\* The decoder skips '\r' and '\n' wherever they stand.
RECURSIVE DropNewlines(_)
DropNewlines(cs) ==
    IF cs = <<>> THEN <<>>
    ELSE IF Head(cs) = 10 \/ Head(cs) = 13 THEN DropNewlines(Tail(cs))
    ELSE <<Head(cs)>> \o DropNewlines(Tail(cs))

RECURSIVE SextetsVal(_, _)
SextetsVal(cs, acc) == IF cs = <<>> THEN acc
                       ELSE SextetsVal(Tail(cs), acc * 64 + B64Index(Head(cs)))

RECURSIVE Pow2(_)
Pow2(k) == IF k = 0 THEN 1 ELSE 2 * Pow2(k - 1)

\* DecodeString on a trailing group: [ok, n, v], n bytes of value v.  A group of
\* one character is corrupt; the bits past the last whole byte are dropped
\* without being looked at (the encoding is not Strict()).
DecodeTail(cs) ==
    LET ds == DropNewlines(cs)
        k == Len(ds)
    IN  IF \E i \in 1..k : B64Index(ds[i]) < 0 THEN [ok |-> FALSE, n |-> 0, v |-> 0]
        ELSE IF k % 4 = 1 THEN [ok |-> FALSE, n |-> 0, v |-> 0]
        ELSE LET n == (6 * k) \div 8
             IN  [ok |-> TRUE, n |-> n, v |-> SextetsVal(ds, 0) \div Pow2(6 * k - 8 * n)]

(***************************************************************************)
(* Byte strings and encoding/json.                                         *)
(*                                                                         *)
(* A JSON member is absent, a number or a string.  A byte string is        *)
(* [body, n, v]: body is its symbolic content (a JSON object, something    *)
(* that is not JSON, or the first bytes of a MAC), followed by n bytes of  *)
(* value v.                                                                *)
(***************************************************************************)
Absent == [t |-> "absent", n |-> 0, s |-> <<>>]
Num(x) == [t |-> "num", n |-> x, s |-> <<>>]
Str(x) == [t |-> "str", n |-> 0, s |-> x]

Content(kind, uid, rid, sub, iat, exp, key, msg) ==
    [kind |-> kind, user_id |-> uid, restaurant_id |-> rid, sub |-> sub,
     iat |-> iat, exp |-> exp, key |-> key, msg |-> msg]

\* json.Marshal(header): {"alg":"HS256","typ":"JWT"}.
HeaderJSON == Content("header", Absent, Absent, Absent, Absent, Absent, "", <<>>)
\* Other header bytes, bytes that are not a JSON object, and no bytes at all.
OtherHeader == Content("header2", Absent, Absent, Absent, Absent, Absent, "", <<>>)
Garbage == Content("garbage", Absent, Absent, Absent, Absent, Absent, "", <<>>)
Empty == Content("empty", Absent, Absent, Absent, Absent, Absent, "", <<>>)

\* json.Marshal(claims) of generateToken, and any JSON object over the same keys.
ClaimsJSON(uid, rid, sub, iat, exp) == Content("object", uid, rid, sub, iat, exp, "", <<>>)

Bytes(body) == [body |-> body, n |-> 0, v |-> 0]

\* json.Unmarshal into struct{UserID int64; Sub string; Issued, Exp int64}: a
\* missing member leaves the zero value, a member of the wrong type is an error,
\* restaurant_id is not a field of the struct and is skipped.
IntField(j) == IF j.t = "num" THEN j.n ELSE 0
StrField(j) == IF j.t = "str" THEN j.s ELSE <<>>

Unmarshal(bs) ==
    LET b == bs.body
        bad == \/ b.kind # "object"
               \/ bs.n # 0
               \/ b.user_id.t = "str"
               \/ b.sub.t = "num"
               \/ b.iat.t = "str"
               \/ b.exp.t = "str"
    IN  [ok |-> ~bad,
         UserID |-> IF bad THEN 0 ELSE IntField(b.user_id),
         Sub |-> IF bad THEN <<>> ELSE StrField(b.sub),
         Issued |-> IF bad THEN 0 ELSE IntField(b.iat),
         Exp |-> IF bad THEN 0 ELSE IntField(b.exp)]

(***************************************************************************)
(* base64.RawURLEncoding on whole byte strings.                            *)
(***************************************************************************)
encode(bs) ==
    [bytes |-> bs.body, variant |-> "canon",
     tail |-> IF bs.n = 0 THEN <<>> ELSE EncodeTail(bs.v)]

\* variant "bad": a character outside the alphabet among the complete groups.
\* variant "alt": the same bytes spelled by another text.
DecodeString(seg) ==
    LET t == DecodeTail(seg.tail)
    IN  IF seg.variant = "bad" \/ ~t.ok
        THEN [ok |-> FALSE, data |-> Bytes(Empty)]
        ELSE [ok |-> TRUE, data |-> [body |-> seg.bytes, n |-> t.n, v |-> t.v]]

EmptySeg == [bytes |-> Empty, variant |-> "canon", tail |-> <<>>]

(***************************************************************************)
(* crypto/hmac with sha256.                                                *)
(***************************************************************************)
KeyNum(key) == IF key = tokenSecret THEN 1 ELSE 2

MemberDigest(j) == IF j.t = "num" THEN j.n ELSE IF j.t = "str" THEN Len(j.s) + 1 ELSE 0

KindDigest(kind) ==
    IF kind = "object" THEN 1 ELSE IF kind = "header" THEN 2 ELSE IF kind = "header2" THEN 3
    ELSE IF kind = "garbage" THEN 4 ELSE 5

SegDigest(seg) ==
    2 * (KindDigest(seg.bytes.kind) + 3 * MemberDigest(seg.bytes.user_id)
         + 5 * MemberDigest(seg.bytes.exp) + 7 * MemberDigest(seg.bytes.iat)
         + 11 * MemberDigest(seg.bytes.restaurant_id) + 13 * MemberDigest(seg.bytes.sub))
    + (IF seg.variant = "canon" THEN 0 ELSE 1)

\* The last TailBytes bytes of the MAC of the text unsigned = parts[0] "." parts[1].
MacTail(key, unsigned) ==
    (KeyNum(key) * 4099 + SegDigest(unsigned[1]) * 641 + SegDigest(unsigned[2]) * 37) % 65536

\* mac.Sum(nil) after mac.Write(unsigned).
HMAC(key, unsigned) ==
    [body |-> Content("mac", Absent, Absent, Absent, Absent, Absent, key, unsigned),
     n |-> TailBytes, v |-> MacTail(key, unsigned)]

\* A comparison that accepts every signature.
hmacEqualAlways(a, b) == TRUE

hmacEqual(a, b) == a = b

(***************************************************************************)
(* The credential store (repository.UserRepository).                       *)
(***************************************************************************)
NoUser == [ID |-> 0, Username |-> <<>>, PasswordHash |-> <<>>, RestaurantID |-> 0]

\* [ok, user]: ok is FALSE for ErrNotFound.
GetByID(us, id) ==
    IF \E u \in us : u.ID = id
    THEN [ok |-> TRUE, user |-> CHOOSE u \in us : u.ID = id]
    ELSE [ok |-> FALSE, user |-> NoUser]

(***************************************************************************)
(* UserService.generateToken.  t is time.Now() in ticks.                   *)
(***************************************************************************)
Unix(t) == t \div SubSec

TokenOf(unsigned, key) == unsigned \o <<encode(HMAC(key, unsigned))>>

\* An issuer that stamps exp with the time of issue.
generateTokenNoTTL(user, t, ttl) ==
    LET claims == ClaimsJSON(Num(user.ID), Num(user.RestaurantID), Str(FormatInt(user.ID)),
                             Num(Unix(t)), Num(Unix(t)))
        unsigned == <<encode(Bytes(HeaderJSON)), encode(Bytes(claims))>>
    IN  TokenOf(unsigned, tokenSecret)

generateToken(user, t, ttl) ==
    LET claims == ClaimsJSON(Num(user.ID), Num(user.RestaurantID), Str(FormatInt(user.ID)),
                             Num(Unix(t)), Num(Unix(t + ttl)))
        unsigned == <<encode(Bytes(HeaderJSON)), encode(Bytes(claims))>>
    IN  TokenOf(unsigned, tokenSecret)

(***************************************************************************)
(* UserService.ValidateAccessToken.                                        *)
(***************************************************************************)
IsSpace(c) == c = 32 \/ (c >= 9 /\ c <= 13)

RECURSIVE TrimRight(_)
TrimRight(cs) == IF cs # <<>> /\ IsSpace(cs[Len(cs)]) THEN TrimRight(SubSeq(cs, 1, Len(cs) - 1))
                 ELSE cs

\* strings.TrimSpace(token): white space can only end the text, in the last tail.
TrimSpace(token) ==
    [i \in 1..Len(token) |->
        IF i = Len(token) THEN [token[i] EXCEPT !.tail = TrimRight(@)] ELSE token[i]]

\* claims.UserID after the fallback to "sub" (lines 249-253).
\* A subject read from user_id alone.
SubjectIDNoFallback(claims) == claims.UserID

SubjectID(claims) ==
    IF claims.UserID = 0 /\ claims.Sub # <<>> /\ ParseInt(claims.Sub).ok
    THEN ParseInt(claims.Sub).v
    ELSE claims.UserID

\* An expiry test that already fails in the second of exp.
IsExpiredAtExp(exp, unixNow) == exp # 0 /\ unixNow >= exp

\* claims.Exp != 0 && time.Now().UTC().Unix() > claims.Exp
IsExpired(exp, unixNow) == exp # 0 /\ unixNow > exp

\* A rejection that tells an unknown subject apart from the other failures.
RejectedTellingLookup(err, steps) ==
    [err |-> IF steps # <<>> /\ steps[Len(steps)] = "GetByID" THEN "ErrNotFound" ELSE err,
     user |-> NoUser, steps |-> steps]

Rejected(err, steps) == [err |-> err, user |-> NoUser, steps |-> steps]

\* [err, user, steps]: steps lists, in order, the stages the call went through.
ValidateAccessToken(us, unixNow, raw) ==
    LET token == TrimSpace(raw)
    IN  IF token = <<EmptySeg>> THEN Rejected("ErrInvalidToken", <<>>)
        ELSE IF Len(token) # 3 THEN Rejected("ErrInvalidToken", <<"Split">>)
        ELSE
        LET sig == DecodeString(token[3])
            unsigned == <<token[1], token[2]>>
            payload == DecodeString(token[2])
            claims == Unmarshal(payload.data)
            uid == SubjectID(claims)
            found == GetByID(us, uid)
        IN  IF ~sig.ok THEN Rejected("ErrInvalidToken", <<"Split", "DecodeSig">>)
            ELSE IF ~hmacEqual(HMAC(tokenSecret, unsigned), sig.data)
            THEN Rejected("ErrInvalidToken", <<"Split", "DecodeSig", "MAC">>)
            ELSE IF ~payload.ok
            THEN Rejected("ErrInvalidToken", <<"Split", "DecodeSig", "MAC", "DecodePayload">>)
            ELSE IF ~claims.ok
            THEN Rejected("ErrInvalidToken",
                          <<"Split", "DecodeSig", "MAC", "DecodePayload", "Unmarshal">>)
            ELSE IF uid = 0
            THEN Rejected("ErrInvalidToken",
                          <<"Split", "DecodeSig", "MAC", "DecodePayload", "Unmarshal", "Subject">>)
            ELSE IF IsExpired(claims.Exp, unixNow)
            THEN Rejected("ErrTokenExpired",
                          <<"Split", "DecodeSig", "MAC", "DecodePayload", "Unmarshal", "Subject",
                            "Expiry">>)
            ELSE IF ~found.ok
            THEN Rejected("ErrInvalidToken",
                          <<"Split", "DecodeSig", "MAC", "DecodePayload", "Unmarshal", "Subject",
                            "Expiry", "GetByID">>)
            ELSE [err |-> "nil", user |-> found.user,
                  steps |-> <<"Split", "DecodeSig", "MAC", "DecodePayload", "Unmarshal",
                              "Subject", "Expiry", "GetByID">>]

(***************************************************************************)
(* Token texts a caller can present.                                       *)
(***************************************************************************)
UserIDInputs == {Absent, Num(0), Num(1), Num(2), Num(7), Str(<<"1">>)}
SubInputs == {Absent, Str(<<>>), Str(<<"1">>), Str(<<"0">>), Str(<<"x">>), Str(<<"7">>), Num(1)}
ExpInputs == {Absent} \cup {Num(e) : e \in (0 - 1)..(MaxNow + 1)}

PayloadInputs ==
    {ClaimsJSON(uid, Absent, sub, Absent, exp) :
        uid \in UserIDInputs, sub \in SubInputs, exp \in ExpInputs} \cup {Garbage}

UnsignedInputs == {<<encode(Bytes(HeaderJSON)), encode(Bytes(p))>> : p \in PayloadInputs}

BadSeg == [bytes |-> Empty, variant |-> "bad", tail |-> <<>>]

\* Signed with the service's secret, signed with another secret, closed by a
\* signature that is not base64url, and texts without exactly three segments.
TokenInputs ==
    {TokenOf(u, tokenSecret) : u \in UnsignedInputs}
    \cup {TokenOf(u, otherSecret) : u \in UnsignedInputs}
    \cup {u \o <<BadSeg>> : u \in UnsignedInputs}
    \cup {<<EmptySeg>>, <<[EmptySeg EXCEPT !.tail = <<32>>]>>}
    \cup {u : u \in UnsignedInputs}
    \cup {TokenOf(u, tokenSecret) \o <<EmptySeg>> : u \in UnsignedInputs}

(***************************************************************************)
(* Single-bit changes to a three-segment token text.                       *)
(***************************************************************************)
FlipBit(c, k) == IF (c \div Pow2(k)) % 2 = 1 THEN c - Pow2(k) ELSE c + Pow2(k)

\* A changed bit among the complete groups of segment i: the text decodes to
\* other bytes, or holds a character outside the alphabet, or holds a "." that
\* splits the segment in two.
OtherBytes(i, b) ==
    IF i = 1 THEN {OtherHeader}
    ELSE IF i = 2 THEN {[b EXCEPT !.exp = Num(e)] : e \in (0..(MaxNow + 1)) \ {b.exp.n}}
                       \cup {[b EXCEPT !.user_id = Num(u)] : u \in {1, 2} \ {b.user_id.n}}
                       \cup {Garbage}
    ELSE {[b EXCEPT !.key = otherSecret]}

BodyFlips(t, i) ==
    {[t EXCEPT ![i].bytes = o] : o \in OtherBytes(i, t[i].bytes)}
    \cup {[t EXCEPT ![i].variant = "bad"]}
    \cup {SubSeq(t, 1, i - 1)
          \o <<[t[i] EXCEPT !.tail = <<>>], [bytes |-> Empty, variant |-> "canon", tail |-> t[i].tail]>>
          \o SubSeq(t, i + 1, Len(t))}

\* A changed bit in character j of the trailing group of segment i.
TailFlip(t, i, j, k) ==
    LET c == FlipBit(t[i].tail[j], k)
        cs == t[i].tail
    IN  IF c = 46
        THEN SubSeq(t, 1, i - 1)
             \o <<[t[i] EXCEPT !.tail = SubSeq(cs, 1, j - 1)],
                  [bytes |-> Empty, variant |-> "canon", tail |-> SubSeq(cs, j + 1, Len(cs))]>>
             \o SubSeq(t, i + 1, Len(t))
        ELSE [t EXCEPT ![i].tail[j] = c]

\* The payload's last group has spare bits when its length is not a multiple
\* of 3: the same bytes under another text.
SpareBitFlips(t) == {[t EXCEPT ![2].variant = "alt"]}

BitFlips(t) ==
    UNION {BodyFlips(t, i) : i \in 1..3}
    \cup SpareBitFlips(t)
    \cup {TailFlip(t, i, j, k) : i \in {3}, j \in 1..Len(t[3].tail), k \in 0..7}

(***************************************************************************)
(* Initial stores.                                                         *)
(***************************************************************************)
hashPassword(password) == <<"sha256:">> \o password

UserRow(id, name, password, rid) ==
    [ID |-> id, Username |-> name, PasswordHash |-> hashPassword(password), RestaurantID |-> rid]

Password1 == <<"p", "a", "s", "s", "w", "o", "r", "d">>
Password2 == <<"h", "u", "n", "t", "e", "r", "2", "2">>

\* users.restaurant_id is nullable (COALESCE(restaurant_id, 0)): an account that
\* predates the column has tenant 0.
InitUsers ==
    {UserRow(1, <<"a", "n", "n">>, Password1, 1),
     UserRow(2, <<"b", "o", "b">>, Password2, 0)}

InitRestaurants == (1 :> "Pho One") @@ (2 :> "Bun Two")

NoResult == [err |-> "none", user |-> NoUser, steps |-> <<>>, unixNow |-> 0]

TTLInputs == {0, 1, SubSec, 2 * SubSec}

\* NewUser: a non-positive lifetime is replaced by the default.
NewUserTTL(ttl) == IF ttl <= 0 THEN defaultTokenTTL ELSE ttl

NoRequest == [route |-> "none"]

\* No service call is in progress.
NoCalls == <<>>

Ticks == now * SubSec + nsec

\* Time passes by one tick.
Tick ==
    /\ Ticks + 1 <= MaxNow * SubSec + (SubSec - 1)
    /\ now' = Unix(Ticks + 1)
    /\ nsec' = (Ticks + 1) % SubSec
    /\ UNCHANGED <<proc, users, restaurants, ingredients, orders, tokenTTL, issued, req, resp, tok, res>>

\* ValidateAccessToken is called with the token text tok.
Validate ==
    /\ res' = [err |-> ValidateAccessToken(users, now, tok).err,
               user |-> ValidateAccessToken(users, now, tok).user,
               steps |-> ValidateAccessToken(users, now, tok).steps,
               unixNow |-> now]
    /\ UNCHANGED <<proc, users, restaurants, ingredients, orders, now, nsec, tokenTTL, issued, req, resp, tok>>

(***************************************************************************)
(* TokenSpec: ValidateAccessToken on every token text of TokenInputs, at   *)
(* every time.                                                             *)
(***************************************************************************)
TokenInit ==
    /\ users = InitUsers
    /\ restaurants = InitRestaurants
    /\ ingredients = {1}
    /\ orders = <<>>
    /\ now = 1
    /\ nsec = 0
    /\ tokenTTL = NewUserTTL(0)
    /\ issued = {}
    /\ req = NoRequest
    /\ resp = NoRequest
    /\ tok \in TokenInputs
    /\ res = NoResult
    /\ proc = NoCalls

TokenNext == Tick \/ Validate

TokenSpec == TokenInit /\ [][TokenNext]_vars

(***************************************************************************)
(* IssueSpec: tokens generated by the service, presented as they are or    *)
(* with one bit changed.                                                   *)
(***************************************************************************)
IssueInit ==
    /\ users = InitUsers
    /\ restaurants = InitRestaurants
    /\ ingredients = {1}
    /\ orders = <<>>
    /\ now = 1
    /\ nsec = 0
    /\ tokenTTL \in {NewUserTTL(ttl) : ttl \in TTLInputs}
    /\ issued = {}
    /\ req = NoRequest
    /\ resp = NoRequest
    /\ tok = <<EmptySeg>>
    /\ res = NoResult
    /\ proc = NoCalls

\* Authenticate, line 153: a token is generated for a stored user.
Issue ==
    /\ Cardinality(issued) < MaxIssued
    /\ \E u \in users :
         issued' = issued \cup {[token |-> generateToken(u, Ticks, tokenTTL), uid |-> u.ID,
                                 iat |-> Unix(Ticks), exp |-> Unix(Ticks + tokenTTL)]}
    /\ UNCHANGED <<proc, users, restaurants, ingredients, orders, now, nsec, tokenTTL, req, resp, tok, res>>

\* The caller, with no call outstanding, takes an issued token as it is.
Present ==
    /\ tok = <<EmptySeg>>
    /\ \E i \in issued : tok' = i.token
    /\ res' = NoResult
    /\ UNCHANGED <<proc, users, restaurants, ingredients, orders, now, nsec, tokenTTL, issued, req, resp>>

\* The caller, with no call outstanding, changes one bit of an issued token.
Tamper ==
    /\ tok = <<EmptySeg>>
    /\ \E i \in issued : \E t \in BitFlips(i.token) : tok' = t
    /\ res' = NoResult
    /\ UNCHANGED <<proc, users, restaurants, ingredients, orders, now, nsec, tokenTTL, issued, req, resp>>

\* The call has returned; the caller lets go of the token text.
Return ==
    /\ res # NoResult
    /\ tok' = <<EmptySeg>>
    /\ res' = NoResult
    /\ UNCHANGED <<proc, users, restaurants, ingredients, orders, now, nsec, tokenTTL, issued, req, resp>>

IssueNext == Tick \/ Issue \/ Present \/ Tamper \/ Validate \/ Return

IssueSpec == IssueInit /\ [][IssueNext]_vars

(***************************************************************************)
(* Strings of the HTTP layer.                                              *)
(***************************************************************************)
RECURSIVE StrTrimLeft(_)
StrTrimLeft(s) == IF s # <<>> /\ Head(s) = " " THEN StrTrimLeft(Tail(s)) ELSE s

RECURSIVE StrTrimRight(_)
StrTrimRight(s) == IF s # <<>> /\ s[Len(s)] = " " THEN StrTrimRight(SubSeq(s, 1, Len(s) - 1))
                   ELSE s

\* strings.TrimSpace on a sequence of characters.
StrTrimSpace(s) == StrTrimLeft(StrTrimRight(s))

\* The Authorization header value: lead spaces, scheme, gap spaces, the token
\* text, trail spaces.  No header at all is the empty value.
Header(lead, scheme, gap, token, trail) ==
    [lead |-> lead, scheme |-> scheme, gap |-> gap, token |-> token, trail |-> trail]

NoHeader == Header(0, "", 0, <<EmptySeg>>, 0)

\* authHeader := strings.TrimSpace(r.Header.Get("Authorization")); the check
\* authHeader == "" || !strings.HasPrefix(authHeader, "Bearer "); and
\* token := strings.TrimSpace(authHeader[len(bearerPrefix):]).
\* Spaces before an empty token end the value and are trimmed with it.
BearerToken(h) ==
    LET tokenEmpty == TrimSpace(h.token) = <<EmptySeg>>
        hasPrefix == h.scheme = "Bearer" /\ h.gap >= 1 /\ ~tokenEmpty
    IN  [ok |-> hasPrefix, token |-> IF hasPrefix THEN TrimSpace(h.token) ELSE <<EmptySeg>>]

\* extractRestaurantID / extractRestaurantIDFromOrderPath: the path after the
\* route's prefix, trimmed and parsed as a decimal int64.
extractRestaurantID(idPart) ==
    IF StrTrimSpace(idPart) = <<>> THEN [ok |-> FALSE, v |-> 0]
    ELSE ParseInt(StrTrimSpace(idPart))

(***************************************************************************)
(* OrderService.GetOrdersByRestaurant and OrderRepository.ListByRestaurant.*)
(***************************************************************************)
OrderRow(id, rid, stamp, idx, ingredient, number) ==
    [ID |-> id, Code |-> <<rid, stamp, idx>>, RestaurantID |-> rid, IngredientID |-> ingredient,
     Number |-> number, CreatedAt |-> stamp, UpdatedAt |-> stamp]

\* A WHERE clause that keeps every row.
RestaurantMatchesAny(rid, o) == TRUE

RestaurantMatches(rid, o) == o.RestaurantID = rid

\* SELECT ... WHERE restaurant_id = $1 ORDER BY id
ListByRestaurant(ords, rid) == SelectSeq(ords, LAMBDA o : RestaurantMatches(rid, o))

GetOrdersByRestaurant(rests, ords, rid) ==
    IF rid <= 0 THEN [err |-> "ErrOrderInvalidRestaurantID", orders |-> <<>>, name |-> ""]
    ELSE IF rid \notin DOMAIN rests
    THEN [err |-> "ErrOrderRestaurantNotFound", orders |-> <<>>, name |-> ""]
    ELSE [err |-> "nil", orders |-> ListByRestaurant(ords, rid), name |-> rests[rid]]

(***************************************************************************)
(* The listing handlers.  A response is [status, error, count,             *)
(* restaurant_name, orders, calls]; calls lists, in order, the service     *)
(* operations the handler invoked.                                         *)
(***************************************************************************)
\* time.Time.Format(time.RFC3339): whole seconds.
RFC3339(t) == <<"RFC3339", Unix(t)>>

orderDTO(o) ==
    [id |-> o.ID, code |-> o.Code, restaurant_id |-> o.RestaurantID,
     ingredient_id |-> o.IngredientID, number |-> o.Number,
     created_at |-> RFC3339(o.CreatedAt), updated_at |-> RFC3339(o.UpdatedAt)]

writeError(status, message, calls) ==
    [status |-> status, error |-> message, count |-> 0, restaurant_name |-> "",
     orders |-> <<>>, calls |-> calls]

writeOrders(got, calls) ==
    [status |-> StatusOK, error |-> "", count |-> Len(got.orders),
     restaurant_name |-> got.name,
     orders |-> [i \in 1..Len(got.orders) |-> orderDTO(got.orders[i])], calls |-> calls]

\* An ownership check that denies nobody.
OwnershipDeniesNobody(user, restaurantID) == FALSE

\* The ownership check of GET /order/{id} (line 178): TRUE when it denies.
OwnershipDenies(user, restaurantID) ==
    user.RestaurantID # 0 /\ user.RestaurantID # restaurantID

tokenError(err, calls) ==
    IF err = "ErrInvalidToken" THEN writeError(StatusUnauthorized, "invalid token", calls)
    ELSE writeError(StatusUnauthorized, "token expired", calls)

\* A listing handler whose ownership check reads the tenant from the token.
OrderDetailHandlerTrustingToken(us, rests, ords, unixNow, r) ==
    LET id == extractRestaurantID(r.idPart)
        bearer == BearerToken(r.header)
        v == ValidateAccessToken(us, unixNow, bearer.token)
        embedded == [v.user EXCEPT !.RestaurantID = IntField(bearer.token[2].bytes.restaurant_id)]
        got == GetOrdersByRestaurant(rests, ords, id.v)
    IN  IF r.method # "GET" THEN writeError(StatusMethodNotAllowed, "method not allowed", <<>>)
        ELSE IF ~id.ok THEN writeError(StatusBadRequest, "invalid restaurant id", <<>>)
        ELSE IF ~bearer.ok
        THEN writeError(StatusUnauthorized, "missing or invalid authorization header", <<>>)
        ELSE IF v.err # "nil" THEN tokenError(v.err, <<"ValidateAccessToken">>)
        ELSE IF OwnershipDenies(embedded, id.v)
        THEN writeError(StatusForbidden, "order data does not belong to your restaurant",
                        <<"ValidateAccessToken">>)
        ELSE IF got.err = "ErrOrderInvalidRestaurantID"
        THEN writeError(StatusForbidden, "restaurant not linked to user",
                        <<"ValidateAccessToken", "GetOrdersByRestaurant">>)
        ELSE IF got.err = "ErrOrderRestaurantNotFound"
        THEN writeError(StatusNotFound, "restaurant not found",
                        <<"ValidateAccessToken", "GetOrdersByRestaurant">>)
        ELSE writeOrders(got, <<"ValidateAccessToken", "GetOrdersByRestaurant">>)

\* A listing handler that fetches without looking at the credential.
OrderDetailHandlerUnguarded(us, rests, ords, unixNow, r) ==
    LET id == extractRestaurantID(r.idPart)
        got == GetOrdersByRestaurant(rests, ords, id.v)
    IN  IF r.method # "GET" THEN writeError(StatusMethodNotAllowed, "method not allowed", <<>>)
        ELSE IF ~id.ok THEN writeError(StatusBadRequest, "invalid restaurant id", <<>>)
        ELSE IF got.err = "ErrOrderInvalidRestaurantID"
        THEN writeError(StatusForbidden, "restaurant not linked to user", <<"GetOrdersByRestaurant">>)
        ELSE IF got.err = "ErrOrderRestaurantNotFound"
        THEN writeError(StatusNotFound, "restaurant not found", <<"GetOrdersByRestaurant">>)
        ELSE writeOrders(got, <<"GetOrdersByRestaurant">>)

\* A handler that looks the restaurant up before it compares it with the
\* account's restaurant.
OrderDetailHandlerLookupFirst(us, rests, ords, unixNow, r) ==
    LET id == extractRestaurantID(r.idPart)
        bearer == BearerToken(r.header)
        v == ValidateAccessToken(us, unixNow, bearer.token)
        got == GetOrdersByRestaurant(rests, ords, id.v)
    IN  IF r.method # "GET" THEN writeError(StatusMethodNotAllowed, "method not allowed", <<>>)
        ELSE IF ~id.ok THEN writeError(StatusBadRequest, "invalid restaurant id", <<>>)
        ELSE IF ~bearer.ok
        THEN writeError(StatusUnauthorized, "missing or invalid authorization header", <<>>)
        ELSE IF v.err # "nil" THEN tokenError(v.err, <<"ValidateAccessToken">>)
        ELSE IF got.err = "ErrOrderInvalidRestaurantID"
        THEN writeError(StatusForbidden, "restaurant not linked to user",
                        <<"ValidateAccessToken", "GetOrdersByRestaurant">>)
        ELSE IF got.err = "ErrOrderRestaurantNotFound"
        THEN writeError(StatusNotFound, "restaurant not found",
                        <<"ValidateAccessToken", "GetOrdersByRestaurant">>)
        ELSE IF OwnershipDenies(v.user, id.v)
        THEN writeError(StatusForbidden, "order data does not belong to your restaurant",
                        <<"ValidateAccessToken", "GetOrdersByRestaurant">>)
        ELSE writeOrders(got, <<"ValidateAccessToken", "GetOrdersByRestaurant">>)

\* OrderDetailHandler.ServeHTTP: GET /order/{id}.
OrderDetailHandler(us, rests, ords, unixNow, r) ==
    LET id == extractRestaurantID(r.idPart)
        bearer == BearerToken(r.header)
        v == ValidateAccessToken(us, unixNow, bearer.token)
        got == GetOrdersByRestaurant(rests, ords, id.v)
    IN  IF r.method # "GET" THEN writeError(StatusMethodNotAllowed, "method not allowed", <<>>)
        ELSE IF ~id.ok THEN writeError(StatusBadRequest, "invalid restaurant id", <<>>)
        ELSE IF ~bearer.ok
        THEN writeError(StatusUnauthorized, "missing or invalid authorization header", <<>>)
        ELSE IF v.err # "nil" THEN tokenError(v.err, <<"ValidateAccessToken">>)
        ELSE IF OwnershipDenies(v.user, id.v)
        THEN writeError(StatusForbidden, "order data does not belong to your restaurant",
                        <<"ValidateAccessToken">>)
        ELSE IF got.err = "ErrOrderInvalidRestaurantID"
        THEN writeError(StatusForbidden, "restaurant not linked to user",
                        <<"ValidateAccessToken", "GetOrdersByRestaurant">>)
        ELSE IF got.err = "ErrOrderRestaurantNotFound"
        THEN writeError(StatusNotFound, "restaurant not found",
                        <<"ValidateAccessToken", "GetOrdersByRestaurant">>)
        ELSE writeOrders(got, <<"ValidateAccessToken", "GetOrdersByRestaurant">>)

\* A bypassing handler that runs the ownership check after all.
OrderBACHandlerEnforcing(us, rests, ords, unixNow, r) ==
    OrderDetailHandler(us, rests, ords, unixNow, r)

\* OrderBACHandler.ServeHTTP: GET /order-bac/{id}.
OrderBACHandler(us, rests, ords, unixNow, r) ==
    LET id == extractRestaurantID(r.idPart)
        bearer == BearerToken(r.header)
        v == ValidateAccessToken(us, unixNow, bearer.token)
        got == GetOrdersByRestaurant(rests, ords, id.v)
    IN  IF r.method # "GET" THEN writeError(StatusMethodNotAllowed, "method not allowed", <<>>)
        ELSE IF ~id.ok THEN writeError(StatusBadRequest, "invalid restaurant id", <<>>)
        ELSE IF ~bearer.ok
        THEN writeError(StatusUnauthorized, "missing or invalid authorization header", <<>>)
        ELSE IF v.err # "nil" THEN tokenError(v.err, <<"ValidateAccessToken">>)
        ELSE IF got.err = "ErrOrderInvalidRestaurantID"
        THEN writeError(StatusBadRequest, "invalid restaurant id",
                        <<"ValidateAccessToken", "GetOrdersByRestaurant">>)
        ELSE IF got.err = "ErrOrderRestaurantNotFound"
        THEN writeError(StatusNotFound, "restaurant not found",
                        <<"ValidateAccessToken", "GetOrdersByRestaurant">>)
        ELSE writeOrders(got, <<"ValidateAccessToken", "GetOrdersByRestaurant">>)

(***************************************************************************)
(* UserService.Authenticate and the login handler.                         *)
(***************************************************************************)
WordChars ==
    {"a", "b", "c", "d", "e", "f", "g", "h", "i", "j", "k", "l", "m", "n", "o", "p", "q",
     "r", "s", "t", "u", "v", "w", "x", "y", "z", "A", "B", "C", "D", "E", "F", "G", "H",
     "I", "J", "K", "L", "M", "N", "O", "P", "Q", "R", "S", "T", "U", "V", "W", "X", "Y",
     "Z", "0", "1", "2", "3", "4", "5", "6", "7", "8", "9", "_"}

\* len in 3..32 and ^[a-zA-Z0-9_]+$
isValidUsername(username) ==
    /\ Len(username) >= 3 /\ Len(username) <= 32
    /\ \A i \in 1..Len(username) : username[i] \in WordChars

isValidPassword(password) == Len(StrTrimSpace(password)) >= 8

\* [ok, user]: ok is FALSE for ErrNotFound.
GetByUsername(us, username) ==
    IF \E u \in us : u.Username = username
    THEN [ok |-> TRUE, user |-> CHOOSE u \in us : u.Username = username]
    ELSE [ok |-> FALSE, user |-> NoUser]

\* [err, token, user]; t is time.Now() in ticks.
Authenticate(us, t, ttl, username0, password0) ==
    LET username == StrTrimSpace(username0)
        password == StrTrimSpace(password0)
        found == GetByUsername(us, username)
    IN  IF ~isValidUsername(username) \/ ~isValidPassword(password)
        THEN [err |-> "ErrInvalidCredentials", token |-> <<EmptySeg>>, user |-> NoUser]
        ELSE IF ~found.ok
        THEN [err |-> "ErrInvalidCredentials", token |-> <<EmptySeg>>, user |-> NoUser]
        ELSE IF found.user.PasswordHash # hashPassword(password)
        THEN [err |-> "ErrInvalidCredentials", token |-> <<EmptySeg>>, user |-> NoUser]
        ELSE [err |-> "nil", token |-> generateToken(found.user, t, ttl), user |-> found.user]

\* The body of POST /login: not JSON, or {"username": ..., "password": ...}.
LoginBody(ok, username, password) == [ok |-> ok, username |-> username, password |-> password]

\* LoginHandler.ServeHTTP: [status, error, access_token, user].
LoginHandler(us, t, ttl, r) ==
    LET a == Authenticate(us, t, ttl, r.body.username, r.body.password)
    IN  IF r.method # "POST"
        THEN [status |-> StatusMethodNotAllowed, error |-> "method not allowed",
              access_token |-> <<EmptySeg>>, user |-> NoUser]
        ELSE IF ~r.body.ok
        THEN [status |-> StatusBadRequest, error |-> "invalid JSON payload",
              access_token |-> <<EmptySeg>>, user |-> NoUser]
        ELSE IF a.err = "ErrInvalidCredentials"
        THEN [status |-> StatusUnauthorized, error |-> "invalid username or password",
              access_token |-> <<EmptySeg>>, user |-> NoUser]
        ELSE [status |-> StatusOK, error |-> "", access_token |-> a.token, user |-> a.user]

(***************************************************************************)
(* Spec: the HTTP service over a store that holds accounts and orders.     *)
(***************************************************************************)
\* Two rows of one batch of restaurant 1 and a row of restaurant 2.
InitOrders == <<OrderRow(1, 1, 0, 0, 1, 5), OrderRow(2, 2, 0, 0, 1, 3), OrderRow(3, 1, 0, 1, 1, 2)>>

Init ==
    /\ users = InitUsers
    /\ restaurants = InitRestaurants
    /\ ingredients = {1}
    /\ orders \in {<<>>, InitOrders}
    /\ now = 1
    /\ nsec = 0
    /\ tokenTTL = NewUserTTL(SubSec)
    /\ issued = {}
    /\ req = NoRequest
    /\ resp = NoRequest
    /\ tok = <<EmptySeg>>
    /\ res = NoResult
    /\ proc = NoCalls

UsernameInputs ==
    {<<"a", "n", "n">>, <<"b", "o", "b">>, <<" ", "a", "n", "n">>, <<"z", "e", "d">>,
     <<"a", "-", "b">>}

PasswordInputs == {Password1, Password2, <<"s", "h", "o", "r", "t">>}

LoginRequests ==
    {[route |-> "/login", method |-> "POST", body |-> LoginBody(TRUE, u, p), at |-> 0] :
        u \in UsernameInputs, p \in PasswordInputs}
    \cup {[route |-> "/login", method |-> "POST", body |-> LoginBody(FALSE, <<>>, <<>>), at |-> 0],
          [route |-> "/login", method |-> "GET", body |-> LoginBody(TRUE, <<"a", "n", "n">>, Password1),
           at |-> 0]}

\* The server takes one request at a time: a handler runs when no response is
\* outstanding, and Respond ends the exchange.
\* POST /login.  A token handed out is logged in issued.
Login ==
    /\ req = NoRequest
    /\ \E r \in LoginRequests :
         LET out == LoginHandler(users, Ticks, tokenTTL, r)
             log == IF out.status = StatusOK
                    THEN {[token |-> out.access_token, uid |-> out.user.ID,
                           iat |-> Unix(Ticks), exp |-> Unix(Ticks + tokenTTL)]}
                    ELSE {}
         IN  /\ Cardinality(issued \cup log) <= MaxLogins
             /\ issued' = issued \cup log
             /\ req' = [r EXCEPT !.at = now]
             /\ resp' = [status |-> out.status, error |-> out.error,
                         access_token |-> out.access_token]
    /\ UNCHANGED <<proc, users, restaurants, ingredients, orders, now, nsec, tokenTTL, tok, res>>

\* Token texts a caller holds: those handed out, one signed with another
\* secret, one without a signature.
ClaimsOfUser1 == ClaimsJSON(Num(1), Num(1), Str(<<"1">>), Num(1), Absent)
ForgedToken == TokenOf(<<encode(Bytes(HeaderJSON)), encode(Bytes(ClaimsOfUser1))>>, otherSecret)
UnsignedToken == <<encode(Bytes(HeaderJSON)), encode(Bytes(ClaimsOfUser1))>>

CallerTokens == {i.token : i \in issued} \cup {ForgedToken, UnsignedToken}

HeaderInputs ==
    {Header(0, "Bearer", 1, t, 0) : t \in CallerTokens}
    \cup {Header(1, "Bearer", 2, i.token, 1) : i \in issued}
    \cup {Header(0, "Bearer", 2, i.token, 0) : i \in issued}
    \cup {NoHeader, Header(0, "Bearer", 1, <<EmptySeg>>, 0), Header(0, "bearer", 1, ForgedToken, 0),
          Header(0, "Basic", 1, ForgedToken, 0)}

IdPartInputs ==
    {<<"1">>, <<"2">>, <<"3">>, <<"0">>, <<"-", "1">>, <<" ", "1">>, <<"x">>, <<>>}

ListRequests(route) ==
    {[route |-> route, method |-> "GET", idPart |-> p, header |-> h, at |-> 0] :
        p \in IdPartInputs, h \in HeaderInputs}
    \cup {[route |-> route, method |-> "POST", idPart |-> <<"1">>, header |-> h, at |-> 0] :
            h \in {NoHeader}}

\* GET /order/{id}
ListOrders ==
    /\ req = NoRequest
    /\ \E r \in ListRequests("/order/") :
         /\ req' = [r EXCEPT !.at = now]
         /\ resp' = OrderDetailHandler(users, restaurants, orders, now, r)
    /\ UNCHANGED <<proc, users, restaurants, ingredients, orders, now, nsec, tokenTTL, issued, tok, res>>

\* GET /order-bac/{id}
ListOrdersBAC ==
    /\ req = NoRequest
    /\ \E r \in ListRequests("/order-bac/") :
         /\ req' = [r EXCEPT !.at = now]
         /\ resp' = OrderBACHandler(users, restaurants, orders, now, r)
    /\ UNCHANGED <<proc, users, restaurants, ingredients, orders, now, nsec, tokenTTL, issued, tok, res>>

\* The response has been written; the exchange is over.
Respond ==
    /\ req # NoRequest
    /\ req' = NoRequest
    /\ resp' = NoRequest
    /\ UNCHANGED <<proc, users, restaurants, ingredients, orders, now, nsec, tokenTTL, issued, tok, res>>

Next == Tick \/ Login \/ ListOrders \/ ListOrdersBAC \/ Respond

Spec == Init /\ [][Next]_vars

(***************************************************************************)
(* OrderService.CreateOrders and OrderRepository.CreateBulk.               *)
(* An item is [IngredientID, Number].  A check is <<name, i>>: i is the    *)
(* item's position, 0 for a check on the call.                             *)
(***************************************************************************)
Item(ingredient, number) == [IngredientID |-> ingredient, Number |-> number]

RECURSIVE ItemChecks(_, _, _, _)
\* The loop over items (lines 76-99), from item i on; done are the checks so far.
ItemChecks(ings, items, i, done) ==
    IF i > Len(items) THEN [err |-> "nil", checks |-> done]
    ELSE IF items[i].IngredientID <= 0
    THEN [err |-> "ErrOrderInvalidIngredientID", checks |-> done \o <<<<"IngredientID", i>>>>]
    ELSE IF items[i].Number <= 0
    THEN [err |-> "ErrOrderInvalidNumber",
          checks |-> done \o <<<<"IngredientID", i>>, <<"Number", i>>>>]
    ELSE IF items[i].IngredientID \notin ings
    THEN [err |-> "ErrOrderIngredientNotFound",
          checks |-> done \o <<<<"IngredientID", i>>, <<"Number", i>>, <<"ingredientRepo.Exists", i>>>>]
    ELSE ItemChecks(ings, items, i + 1,
                    done \o <<<<"IngredientID", i>>, <<"Number", i>>, <<"ingredientRepo.Exists", i>>>>)

\* A validation that looks the restaurant up before it looks at the batch.
ValidateOrdersLookupFirst(rests, ings, rid, items) ==
    IF rid <= 0
    THEN [err |-> "ErrOrderInvalidRestaurantID", checks |-> <<<<"restaurantID", 0>>>>]
    ELSE IF rid \notin DOMAIN rests
    THEN [err |-> "ErrOrderRestaurantNotFound",
          checks |-> <<<<"restaurantID", 0>>, <<"restaurantRepo.Exists", 0>>>>]
    ELSE IF Len(items) = 0
    THEN [err |-> "ErrOrderEmptyItems",
          checks |-> <<<<"restaurantID", 0>>, <<"restaurantRepo.Exists", 0>>, <<"items", 0>>>>]
    ELSE ItemChecks(ings, items, 1,
                    <<<<"restaurantID", 0>>, <<"restaurantRepo.Exists", 0>>, <<"items", 0>>>>)

\* The validation of CreateOrders (lines 58-99): [err, checks].
ValidateOrders(rests, ings, rid, items) ==
    IF rid <= 0
    THEN [err |-> "ErrOrderInvalidRestaurantID", checks |-> <<<<"restaurantID", 0>>>>]
    ELSE IF Len(items) = 0
    THEN [err |-> "ErrOrderEmptyItems", checks |-> <<<<"restaurantID", 0>>, <<"items", 0>>>>]
    ELSE IF rid \notin DOMAIN rests
    THEN [err |-> "ErrOrderRestaurantNotFound",
          checks |-> <<<<"restaurantID", 0>>, <<"items", 0>>, <<"restaurantRepo.Exists", 0>>>>]
    ELSE ItemChecks(ings, items, 1,
                    <<<<"restaurantID", 0>>, <<"items", 0>>, <<"restaurantRepo.Exists", 0>>>>)

\* fmt.Sprintf("ORD-%d-%d-%d", restaurantID, now, idx): the three numbers are
\* non-negative, so the text determines them.
OrderCode(rid, stamp, idx) == <<rid, stamp, idx>>

\* persistItems (lines 75, 91-97); stamp is time.Now().UTC().UnixNano() in ticks.
PersistItems(rid, stamp, items) ==
    [i \in 1..Len(items) |->
        [Code |-> OrderCode(rid, stamp, i - 1), RestaurantID |-> rid,
         IngredientID |-> items[i].IngredientID, Number |-> items[i].Number]]

Codes(ords) == {ords[i].Code : i \in 1..Len(ords)}

\* The first INSERT of the batch that fails: one that meets a stored code or
\* an earlier code of the batch (orders.code is UNIQUE), or the one the
\* storage fault hits (fault in 1..Len(items); the request's deadline or
\* cancellation is such a fault).  0 when none fails.
FirstFailure(ords, items, fault) ==
    LET clash(k) == \/ items[k].Code \in Codes(ords)
                    \/ \E j \in 1..(k - 1) : items[j].Code = items[k].Code
        failing == {k \in 1..Len(items) : clash(k) \/ k = fault}
    IN  IF failing = {} THEN 0 ELSE CHOOSE k \in failing : \A j \in failing : k <= j

\* The rows the first n INSERTs of the batch write.  id SERIAL: the ids follow
\* those of the table (a gap left by a rolled-back transaction would change no
\* order among rows and is left out); created_at and updated_at default to
\* the database's NOW().  restaurant_id is the restaurantID argument of
\* CreateBulk, the same for every row of the batch (line 49).
InsertedRows(ords, dbNow, restaurantID, items, n) ==
    [i \in 1..n |->
        [ID |-> Len(ords) + i, Code |-> items[i].Code, RestaurantID |-> restaurantID,
         IngredientID |-> items[i].IngredientID, Number |-> items[i].Number,
         CreatedAt |-> dbNow, UpdatedAt |-> dbNow]]

\* A CreateBulk whose failure leaves the rows already written in the table.
CreateBulkNoRollback(ords, dbNow, restaurantID, items, fault) ==
    LET n == Len(items)
        k == FirstFailure(ords, items, fault)
    IN  IF n = 0 THEN [err |-> "nil", orders |-> ords]
        ELSE IF k # 0
        THEN [err |-> "insert order",
              orders |-> ords \o InsertedRows(ords, dbNow, restaurantID, items, k - 1)]
        ELSE IF fault = n + 1
        THEN [err |-> "commit orders",
              orders |-> ords \o InsertedRows(ords, dbNow, restaurantID, items, n)]
        ELSE [err |-> "nil", orders |-> ords \o InsertedRows(ords, dbNow, restaurantID, items, n)]

\* OrderRepository.CreateBulk: one transaction; tx.Rollback() on a failed
\* INSERT, nothing kept when tx.Commit() fails (fault = Len(items) + 1).
CreateBulk(ords, dbNow, restaurantID, items, fault) ==
    LET n == Len(items)
        k == FirstFailure(ords, items, fault)
    IN  IF n = 0 THEN [err |-> "nil", orders |-> ords]
        ELSE IF k # 0 THEN [err |-> "insert order", orders |-> ords]
        ELSE IF fault = n + 1 THEN [err |-> "commit orders", orders |-> ords]
        ELSE [err |-> "nil", orders |-> ords \o InsertedRows(ords, dbNow, restaurantID, items, n)]

\* OrderService.CreateOrders, run without interruption at time t:
\* [err, orders, checks].  A storage error comes back wrapped.
CreateOrders(rests, ings, ords, t, rid, items, fault) ==
    LET v == ValidateOrders(rests, ings, rid, items)
        stored == CreateBulk(ords, t, rid, PersistItems(rid, t, items), fault)
    IN  IF v.err # "nil"
        THEN [err |-> v.err, orders |-> ords, checks |-> v.checks]
        ELSE [err |-> IF stored.err = "nil" THEN "nil" ELSE "store orders",
              orders |-> stored.orders, checks |-> v.checks]

(***************************************************************************)
(* OrderCreateHandler.ServeHTTP: POST /order/create.                       *)
(***************************************************************************)
\* The body: not JSON, or {"restaurant_id": ..., "orders": [...]}; a member
\* left out decodes to 0.
OrderBody(ok, rid, items) == [ok |-> ok, restaurant_id |-> rid, orders |-> items]

\* The tenant the handler creates the orders for (lines 85-87).
PayloadRestaurant(user, rid) == IF rid = 0 /\ user.RestaurantID # 0 THEN user.RestaurantID ELSE rid

\* A check of the payload's restaurant that denies nobody.
RestaurantMismatchNever(user, rid) == FALSE

\* The check of lines 80-83: TRUE when it denies.
RestaurantMismatch(user, rid) ==
    user.RestaurantID # 0 /\ rid # 0 /\ user.RestaurantID # rid

createError(err, calls) ==
    IF err = "ErrOrderInvalidRestaurantID" THEN writeError(StatusBadRequest, "invalid restaurant id", calls)
    ELSE IF err = "ErrOrderRestaurantNotFound" THEN writeError(StatusBadRequest, "restaurant not found", calls)
    ELSE IF err = "ErrOrderEmptyItems"
    THEN writeError(StatusBadRequest, "orders must include at least one item", calls)
    ELSE IF err = "ErrOrderInvalidIngredientID" THEN writeError(StatusBadRequest, "invalid ingredient id", calls)
    ELSE IF err = "ErrOrderInvalidNumber" THEN writeError(StatusBadRequest, "invalid number", calls)
    ELSE IF err = "ErrOrderIngredientNotFound" THEN writeError(StatusBadRequest, "ingredient not found", calls)
    ELSE writeError(StatusInternalServerError, "internal server error", calls)

\* A handler that stores the batch before it looks at the token.
OrderCreateHandlerStoringFirst(us, rests, ings, ords, t, r, fault) ==
    LET bearer == BearerToken(r.header)
        v == ValidateAccessToken(us, Unix(t), bearer.token)
        rid == PayloadRestaurant(v.user, r.body.restaurant_id)
        made == CreateOrders(rests, ings, ords, t, rid, r.body.orders, fault)
        same(response) == [resp |-> response, orders |-> ords]
    IN  IF r.method # "POST" THEN same(writeError(StatusMethodNotAllowed, "method not allowed", <<>>))
        ELSE IF ~bearer.ok
        THEN same(writeError(StatusUnauthorized, "missing or invalid authorization header", <<>>))
        ELSE IF ~r.body.ok THEN same(writeError(StatusBadRequest, "invalid JSON payload", <<>>))
        ELSE IF v.err # "nil"
        THEN [resp |-> tokenError(v.err, <<"ValidateAccessToken">>), orders |-> made.orders]
        ELSE IF RestaurantMismatch(v.user, r.body.restaurant_id)
        THEN same(writeError(StatusForbidden, "restaurant mismatch", <<"ValidateAccessToken">>))
        ELSE IF made.err # "nil"
        THEN [resp |-> createError(made.err, <<"ValidateAccessToken", "CreateOrders">>),
              orders |-> made.orders]
        ELSE [resp |-> [status |-> StatusCreated, error |-> "", created |-> Len(r.body.orders),
                        tenant |-> rid, calls |-> <<"ValidateAccessToken", "CreateOrders">>],
              orders |-> made.orders]

\* [resp, orders]: the response and the orders table after it.  tenant
\* and calls record for which restaurant and through which service calls the
\* response came about.
OrderCreateHandler(us, rests, ings, ords, t, r, fault) ==
    LET bearer == BearerToken(r.header)
        v == ValidateAccessToken(us, Unix(t), bearer.token)
        rid == PayloadRestaurant(v.user, r.body.restaurant_id)
        made == CreateOrders(rests, ings, ords, t, rid, r.body.orders, fault)
        same(response) == [resp |-> response, orders |-> ords]
    IN  IF r.method # "POST" THEN same(writeError(StatusMethodNotAllowed, "method not allowed", <<>>))
        ELSE IF ~bearer.ok
        THEN same(writeError(StatusUnauthorized, "missing or invalid authorization header", <<>>))
        ELSE IF ~r.body.ok THEN same(writeError(StatusBadRequest, "invalid JSON payload", <<>>))
        ELSE IF v.err # "nil" THEN same(tokenError(v.err, <<"ValidateAccessToken">>))
        ELSE IF RestaurantMismatch(v.user, r.body.restaurant_id)
        THEN same(writeError(StatusForbidden, "restaurant mismatch", <<"ValidateAccessToken">>))
        ELSE IF made.err # "nil"
        THEN [resp |-> createError(made.err, <<"ValidateAccessToken", "CreateOrders">>),
              orders |-> made.orders]
        ELSE [resp |-> [status |-> StatusCreated, error |-> "", created |-> Len(r.body.orders),
                        tenant |-> rid, calls |-> <<"ValidateAccessToken", "CreateOrders">>],
              orders |-> made.orders]

(***************************************************************************)
(* UserService.SignUp, UserRepository.Create and the sign-up handler.      *)
(***************************************************************************)
\* SignUp up to the existence pre-check (lines 91-118): [err, username].
SignUpCheck(us, rests, username0, password, rid) ==
    LET username == StrTrimSpace(username0)
        failed(err) == [err |-> err, username |-> username]
    IN  IF ~isValidUsername(username) THEN failed("ErrInvalidUsername")
        ELSE IF ~isValidPassword(password) THEN failed("ErrInvalidPassword")
        ELSE IF rid <= 0 THEN failed("ErrInvalidRestaurantID")
        ELSE IF rid \notin DOMAIN rests THEN failed("ErrRestaurantNotFound")
        ELSE IF \E u \in us : u.Username = username THEN failed("ErrUsernameTaken")
        ELSE failed("nil")

\* pgErr.Code == "23505": the unique violation alone is a conflict.
isConstraintViolation(code) == code = "23505"

\* An INSERT that reports a duplicate username like any other failure.
CreateOpaque(us, rests, username, passwordHash, rid) ==
    IF (\E u \in us : u.Username = username) \/ rid \notin DOMAIN rests
    THEN [err |-> "insert user", users |-> us, user |-> NoUser]
    ELSE [err |-> "nil",
          users |-> us \cup {[ID |-> Cardinality(us) + 1, Username |-> username,
                              PasswordHash |-> passwordHash, RestaurantID |-> rid]},
          user |-> [ID |-> Cardinality(us) + 1, Username |-> username,
                    PasswordHash |-> passwordHash, RestaurantID |-> rid]]

\* UserRepository.Create: INSERT INTO users ... RETURNING.  users.username is
\* UNIQUE (SQLSTATE 23505), users.restaurant_id REFERENCES restaurants
\* (SQLSTATE 23503).  id SERIAL: the ids follow those of the table.
Create(us, rests, username, passwordHash, rid) ==
    LET code == IF \E u \in us : u.Username = username THEN "23505"
                ELSE IF rid \notin DOMAIN rests THEN "23503"
                ELSE "00000"
        row == [ID |-> Cardinality(us) + 1, Username |-> username,
                PasswordHash |-> passwordHash, RestaurantID |-> rid]
    IN  IF code # "00000"
        THEN [err |-> IF isConstraintViolation(code) THEN "ErrConflict" ELSE "insert user",
              users |-> us, user |-> NoUser]
        ELSE [err |-> "nil", users |-> us \cup {row}, user |-> row]

\* SignUp from the hashing on (lines 120-129): the password is hashed as given.
SignUpCreate(us, rests, username, password, rid) ==
    LET made == Create(us, rests, username, hashPassword(password), rid)
    IN  [err |-> IF made.err = "nil" THEN "nil"
                 ELSE IF made.err = "ErrConflict" THEN "ErrUsernameTaken"
                 ELSE "create user",
         users |-> made.users, user |-> made.user]

\* UserService.SignUp, run without interruption: [err, users, user].
SignUp(us, rests, username0, password, rid) ==
    LET chk == SignUpCheck(us, rests, username0, password, rid)
    IN  IF chk.err # "nil" THEN [err |-> chk.err, users |-> us, user |-> NoUser]
        ELSE SignUpCreate(us, rests, chk.username, password, rid)

handleServiceError(err) ==
    IF err = "ErrInvalidUsername" THEN writeError(StatusBadRequest, "invalid username", <<"SignUp">>)
    ELSE IF err = "ErrInvalidPassword" THEN writeError(StatusBadRequest, "invalid password", <<"SignUp">>)
    ELSE IF err = "ErrInvalidRestaurantID"
    THEN writeError(StatusBadRequest, "invalid restaurant id", <<"SignUp">>)
    ELSE IF err = "ErrRestaurantNotFound"
    THEN writeError(StatusBadRequest, "restaurant not found", <<"SignUp">>)
    ELSE IF err = "ErrUsernameTaken"
    THEN writeError(StatusConflict, "username already exists", <<"SignUp">>)
    ELSE writeError(StatusInternalServerError, "internal server error", <<"SignUp">>)

\* The body of POST /signup: not JSON, or {"username", "password", "restaurant_id"}.
SignupBody(ok, username, password, rid) ==
    [ok |-> ok, username |-> username, password |-> password, restaurant_id |-> rid]

\* SignupHandler.ServeHTTP: [resp, users].
SignupHandler(us, rests, r) ==
    LET made == SignUp(us, rests, r.body.username, r.body.password, r.body.restaurant_id)
    IN  IF r.method # "POST"
        THEN [resp |-> writeError(StatusMethodNotAllowed, "method not allowed", <<>>), users |-> us]
        ELSE IF ~r.body.ok
        THEN [resp |-> writeError(StatusBadRequest, "invalid JSON payload", <<>>), users |-> us]
        ELSE IF made.err # "nil" THEN [resp |-> handleServiceError(made.err), users |-> made.users]
        ELSE [resp |-> [status |-> StatusCreated, error |-> "", id |-> made.user.ID,
                        username |-> made.user.Username,
                        restaurant_id |-> made.user.RestaurantID, calls |-> <<"SignUp">>],
              users |-> made.users]

(***************************************************************************)
(* UserService.GetProfile and ProfileHandler.ServeHTTP: GET /profile.      *)
(***************************************************************************)
\* [err, profile].  The restaurant's name is fetched for a linked account.
GetProfile(us, rests, userID) ==
    LET found == GetByID(us, userID)
        none == [ID |-> 0, Username |-> <<>>, RestaurantID |-> 0, RestaurantName |-> ""]
    IN  IF ~found.ok THEN [err |-> "ErrInvalidToken", profile |-> none]
        ELSE IF found.user.RestaurantID > 0 /\ found.user.RestaurantID \notin DOMAIN rests
        THEN [err |-> "ErrRestaurantNotFound", profile |-> none]
        ELSE [err |-> "nil",
              profile |-> [ID |-> found.user.ID, Username |-> found.user.Username,
                           RestaurantID |-> found.user.RestaurantID,
                           RestaurantName |-> IF found.user.RestaurantID > 0
                                              THEN rests[found.user.RestaurantID] ELSE ""]]

ProfileHandler(us, rests, unixNow, r) ==
    LET bearer == BearerToken(r.header)
        v == ValidateAccessToken(us, unixNow, bearer.token)
        got == GetProfile(us, rests, v.user.ID)
    IN  IF r.method # "GET" THEN writeError(StatusMethodNotAllowed, "method not allowed", <<>>)
        ELSE IF ~bearer.ok
        THEN writeError(StatusUnauthorized, "missing or invalid authorization header", <<>>)
        ELSE IF v.err # "nil" THEN tokenError(v.err, <<"ValidateAccessToken">>)
        ELSE IF got.err = "ErrRestaurantNotFound"
        THEN writeError(StatusNotFound, "restaurant not found", <<"ValidateAccessToken", "GetProfile">>)
        ELSE IF got.err # "nil"
        THEN writeError(StatusInternalServerError, "internal server error",
                        <<"ValidateAccessToken", "GetProfile">>)
        ELSE [status |-> StatusOK, error |-> "", id |-> got.profile.ID,
              user_name |-> got.profile.Username, restaurant_id |-> got.profile.RestaurantID,
              restaurant_name |-> got.profile.RestaurantName,
              calls |-> <<"ValidateAccessToken", "GetProfile">>]

(***************************************************************************)
(* TenantSpec: accounts whose restaurant changes after their tokens were   *)
(* issued, in front of GET /order/{id} and POST /order/create.             *)
(***************************************************************************)
\* The log entry of generateToken for user u at time t.
IssuedTo(u, t, ttl) ==
    [token |-> generateToken(u, t, ttl), uid |-> u.ID, iat |-> Unix(t), exp |-> Unix(t + ttl)]

\* The tokens were issued in second 1; the requests fall into second MaxNow.
TenantInit ==
    /\ users = InitUsers
    /\ restaurants = InitRestaurants
    /\ ingredients = {1}
    /\ orders = InitOrders
    /\ now = MaxNow
    /\ nsec = 0
    /\ tokenTTL = NewUserTTL(0)
    /\ issued = {IssuedTo(u, SubSec, NewUserTTL(0)) : u \in InitUsers}
    /\ req = NoRequest
    /\ resp = NoRequest
    /\ tok = <<EmptySeg>>
    /\ res = NoResult
    /\ proc = NoCalls

\* UPDATE users SET restaurant_id = ...: the account is linked to another
\* restaurant, or to none, by the operator of the database.
Relink ==
    /\ req = NoRequest
    /\ \E u \in users : \E r \in {0} \cup DOMAIN restaurants :
         /\ r # u.RestaurantID
         /\ users' = (users \ {u}) \cup {[u EXCEPT !.RestaurantID = r]}
    /\ UNCHANGED <<proc, restaurants, ingredients, orders, now, nsec, tokenTTL, issued, req,
                   resp, tok, res>>

ItemsInputs ==
    {<<>>, <<Item(1, 5)>>, <<Item(1, 1), Item(1, 2)>>, <<Item(1, 2), Item(9, 1)>>, <<Item(1, 0)>>,
     <<Item(0, 1)>>}

BodyInputs ==
    {OrderBody(TRUE, rid, items) : rid \in {0, 1, 2, 3}, items \in ItemsInputs}
    \cup {OrderBody(TRUE, 0 - 1, <<Item(1, 5)>>), OrderBody(FALSE, 0, <<>>)}

\* Every header with a body that would be stored, and every body under the
\* headers that carry an issued token.
CreateRequests ==
    {[route |-> "/order/create", method |-> "POST", header |-> h, body |-> b, fault |-> 0,
      before |-> 0, at |-> 0] :
        h \in HeaderInputs, b \in {OrderBody(TRUE, 1, <<Item(1, 5)>>), OrderBody(FALSE, 0, <<>>)}}
    \cup {[route |-> "/order/create", method |-> "POST", header |-> Header(0, "Bearer", 1, i.token, 0),
           body |-> b, fault |-> 0, before |-> 0, at |-> 0] : i \in issued, b \in BodyInputs}
    \cup {[route |-> "/order/create", method |-> "GET", header |-> NoHeader,
           body |-> OrderBody(TRUE, 1, <<Item(1, 5)>>), fault |-> 0, before |-> 0, at |-> 0]}

\* POST /order/create.  fault is the storage fault that meets the request:
\* none, or the failure of its last INSERT.  before is the number of rows
\* the orders table held when the request came in.
CreateOrder ==
    /\ req = NoRequest
    /\ \E r \in CreateRequests : \E fault \in {0, Len(r.body.orders)} :
         LET out == OrderCreateHandler(users, restaurants, ingredients, orders, Ticks, r, fault)
         IN  /\ Len(out.orders) <= MaxOrders
             /\ req' = [r EXCEPT !.at = now, !.fault = fault, !.before = Len(orders)]
             /\ resp' = out.resp
             /\ orders' = out.orders
    /\ UNCHANGED <<proc, users, restaurants, ingredients, now, nsec, tokenTTL, issued, tok, res>>

TenantNext == Tick \/ Relink \/ ListOrders \/ CreateOrder \/ Respond

TenantSpec == TenantInit /\ [][TenantNext]_vars

(***************************************************************************)
(* ApiSpec: every endpoint that reads a credential or names a resource,    *)
(* called with tokens issued before.                                       *)
(***************************************************************************)
ApiInit == TenantInit

ProfileRequests ==
    {[route |-> "/profile", method |-> "GET", header |-> h, at |-> 0] : h \in HeaderInputs}
    \cup {[route |-> "/profile", method |-> "POST", header |-> NoHeader, at |-> 0]}

\* GET /profile
Profile ==
    /\ req = NoRequest
    /\ \E r \in ProfileRequests :
         /\ req' = [r EXCEPT !.at = now]
         /\ resp' = ProfileHandler(users, restaurants, now, r)
    /\ UNCHANGED <<proc, users, restaurants, ingredients, orders, now, nsec, tokenTTL, issued, tok, res>>

NewName == <<"c", "a", "t">>

SignupBodies ==
    {SignupBody(TRUE, NewName, Password1, rid) : rid \in {0, 1, 3}}
    \cup {SignupBody(TRUE, <<"a", "n", "n">>, Password1, 1),
          SignupBody(TRUE, <<"a", "-", "b">>, Password1, 1),
          SignupBody(TRUE, NewName, <<"s", "h", "o", "r", "t">>, 1),
          SignupBody(FALSE, <<>>, <<>>, 0)}

SignupRequests ==
    {[route |-> "/signup", method |-> "POST", body |-> b, at |-> 0] : b \in SignupBodies}
    \cup {[route |-> "/signup", method |-> "GET", body |-> SignupBody(TRUE, NewName, Password1, 1),
           at |-> 0]}

\* POST /signup
Signup ==
    /\ req = NoRequest
    /\ \E r \in SignupRequests :
         LET out == SignupHandler(users, restaurants, r)
         IN  /\ Cardinality(out.users) <= MaxUsers
             /\ req' = [r EXCEPT !.at = now]
             /\ resp' = out.resp
             /\ users' = out.users
    /\ UNCHANGED <<proc, restaurants, ingredients, orders, now, nsec, tokenTTL, issued, tok, res>>

ApiNext == Tick \/ ListOrders \/ ListOrdersBAC \/ Profile \/ CreateOrder \/ Signup \/ Respond

ApiSpec == ApiInit /\ [][ApiNext]_vars

(***************************************************************************)
(* OrderSpec: calls of OrderService.CreateOrders that run side by side.    *)
(* A call validates its input and reads the clock (lines 58-99), then      *)
(* hands the batch to CreateBulk (line 101), whose transaction takes       *)
(* effect when it commits.  proc[p] is the call that goroutine p is in;    *)
(* res is the call that returned last.                                     *)
(***************************************************************************)
Idle == [pc |-> "idle"]

\* The calls fall into second MaxNow.
OrderInit ==
    /\ users = InitUsers
    /\ restaurants = InitRestaurants
    /\ ingredients = {1}
    /\ orders = <<>>
    /\ now = MaxNow
    /\ nsec = 0
    /\ tokenTTL = NewUserTTL(0)
    /\ issued = {}
    /\ req = NoRequest
    /\ resp = NoRequest
    /\ tok = <<EmptySeg>>
    /\ res = NoResult
    /\ proc = <<Idle, Idle>>

\* Batches: empty, one that passes every check, and ones whose first, second
\* or only item fails one.
BatchInputs ==
    {<<>>, <<Item(1, 1), Item(1, 2)>>, <<Item(1, 1), Item(9, 1), Item(1, 1)>>,
     <<Item(1, 2), Item(1, 0)>>, <<Item(1, 0)>>, <<Item(0, 1)>>}

\* What a returned call leaves behind: its arguments, the clock value it
\* read (0 when it read none), the storage fault it met, its error, the
\* checks it made and the rows it added to the table.
Outcome(rid, items, stamp, fault, err, checks, added) ==
    [rid |-> rid, items |-> items, stamp |-> stamp, fault |-> fault, err |-> err,
     checks |-> checks, added |-> added]

\* CreateOrders up to the call of CreateBulk.  A call that fails a check
\* returns at once; one that passes holds its batch, stamped with UnixNano.
CreateOrdersBegin ==
    /\ \E p \in DOMAIN proc : \E rid \in {0, 1, 3} : \E items \in BatchInputs :
         LET v == ValidateOrders(restaurants, ingredients, rid, items)
         IN  /\ proc[p] = Idle
             /\ res = NoResult
             /\ IF v.err # "nil"
                THEN /\ res' = Outcome(rid, items, 0, 0, v.err, v.checks, <<>>)
                     /\ proc' = proc
                ELSE /\ proc' = [proc EXCEPT ![p] = [pc |-> "CreateBulk", rid |-> rid, items |-> items,
                                                     stamp |-> Ticks, checks |-> v.checks]]
                     /\ res' = res
    /\ UNCHANGED <<users, restaurants, ingredients, orders, now, nsec, tokenTTL, issued, req, resp, tok>>

\* CreateBulk and the return of CreateOrders (lines 101-105).  fault is the
\* storage fault that meets the transaction: none, a failing INSERT, or a
\* failing COMMIT.
CreateOrdersStore ==
    /\ \E p \in DOMAIN proc :
         /\ proc[p] # Idle
         /\ res = NoResult
         /\ \E fault \in 0..(Len(proc[p].items) + 1) :
              LET c == proc[p]
                  stored == CreateBulk(orders, Ticks, c.rid,
                                       PersistItems(c.rid, c.stamp, c.items), fault)
              IN  /\ Len(stored.orders) <= MaxOrders
                  /\ orders' = stored.orders
                  /\ res' = Outcome(c.rid, c.items, c.stamp, fault,
                                    IF stored.err = "nil" THEN "nil" ELSE "store orders", c.checks,
                                    SubSeq(stored.orders, Len(orders) + 1, Len(stored.orders)))
                  /\ proc' = [proc EXCEPT ![p] = Idle]
    /\ UNCHANGED <<users, restaurants, ingredients, now, nsec, tokenTTL, issued, req, resp, tok>>

\* The caller has taken the outcome of the call that returned.
CreateOrdersReturn ==
    /\ res # NoResult
    /\ res' = NoResult
    /\ UNCHANGED <<proc, users, restaurants, ingredients, orders, now, nsec, tokenTTL, issued, req,
                   resp, tok>>

OrderNext == Tick \/ CreateOrdersBegin \/ CreateOrdersStore \/ CreateOrdersReturn

OrderSpec == OrderInit /\ [][OrderNext]_vars

(***************************************************************************)
(* AccountSpec: calls of UserService.SignUp that run side by side, and the *)
(* login that follows a sign-up.  A SignUp validates its input and looks   *)
(* the username up (lines 91-118), then hashes the password and inserts    *)
(* the account (lines 120-129).  proc[p] is the call that goroutine p is   *)
(* in; res is the call that returned last.                                 *)
(***************************************************************************)
AccountInit == OrderInit

PaddedPassword == <<" ">> \o Password1

SignUpUsernames == {NewName, <<" ">> \o NewName, <<"a", "n", "n">>, <<"a", "-", "b">>}

SignUpPasswords == {Password1, PaddedPassword, <<"s", "h", "o", "r", "t">>}

\* What a returned SignUp leaves behind: its arguments, its error, the
\* status the sign-up handler answers it with, the account it created, and
\* whether its INSERT met an account of the same username.
SignUpOutcome(username, password, rid, err, user, clash) ==
    [op |-> "SignUp", username |-> username, password |-> password, rid |-> rid, err |-> err,
     status |-> IF err = "nil" THEN StatusCreated ELSE handleServiceError(err).status,
     user |-> user, clash |-> clash]

\* SignUp up to the call of repo.Create.  A call that fails a check returns
\* at once.
SignUpBegin ==
    /\ \E p \in DOMAIN proc : \E username \in SignUpUsernames : \E password \in SignUpPasswords :
         \E rid \in {0, 1, 2, 3} :
           LET chk == SignUpCheck(users, restaurants, username, password, rid)
           IN  /\ proc[p] = Idle
               /\ res = NoResult
               /\ IF chk.err # "nil"
                  THEN /\ res' = SignUpOutcome(username, password, rid, chk.err, NoUser, FALSE)
                       /\ proc' = proc
                  ELSE /\ proc' = [proc EXCEPT ![p] = [pc |-> "Create", given |-> username,
                                                       username |-> chk.username,
                                                       password |-> password, rid |-> rid]]
                       /\ res' = res
    /\ UNCHANGED <<users, restaurants, ingredients, orders, now, nsec, tokenTTL, issued, req, resp, tok>>

\* hashPassword, repo.Create and the return of SignUp.
SignUpStore ==
    /\ \E p \in DOMAIN proc :
         LET c == proc[p]
             made == SignUpCreate(users, restaurants, c.username, c.password, c.rid)
         IN  /\ c # Idle
             /\ res = NoResult
             /\ Cardinality(made.users) <= MaxUsers
             /\ users' = made.users
             /\ res' = SignUpOutcome(c.given, c.password, c.rid, made.err, made.user,
                                     \E u \in users : u.Username = c.username)
             /\ proc' = [proc EXCEPT ![p] = Idle]
    /\ UNCHANGED <<restaurants, ingredients, orders, now, nsec, tokenTTL, issued, req, resp, tok>>

\* Authenticate with the username and the password of the SignUp that
\* returned an account.
LoginAfterSignUp ==
    /\ res # NoResult
    /\ res.op = "SignUp"
    /\ res.err = "nil"
    /\ LET a == Authenticate(users, Ticks, tokenTTL, res.username, res.password)
       IN  res' = [op |-> "Authenticate", username |-> res.username, password |-> res.password,
                   rid |-> res.rid, err |-> a.err, token |-> a.token, user |-> a.user]
    /\ UNCHANGED <<proc, users, restaurants, ingredients, orders, now, nsec, tokenTTL, issued, req,
                   resp, tok>>

AccountNext == Tick \/ SignUpBegin \/ SignUpStore \/ LoginAfterSignUp \/ CreateOrdersReturn

AccountSpec == AccountInit /\ [][AccountNext]_vars

(***************************************************************************)
(* ServiceSpec: the whole router.  Both stored accounts have logged in in  *)
(* second MaxNow; log-ins, sign-ups, order creations, listings and profile *)
(* requests follow in any order.                                           *)
(***************************************************************************)
ServiceInit ==
    /\ users = InitUsers
    /\ restaurants = InitRestaurants
    /\ ingredients = {1}
    /\ orders = <<OrderRow(1, 1, 0, 0, 1, 5), OrderRow(2, 2, 0, 0, 1, 3)>>
    /\ now = MaxNow
    /\ nsec = 0
    /\ tokenTTL = NewUserTTL(0)
    /\ issued = {IssuedTo(u, MaxNow * SubSec, NewUserTTL(0)) : u \in InitUsers}
    /\ req = NoRequest
    /\ resp = NoRequest
    /\ tok = <<EmptySeg>>
    /\ res = NoResult
    /\ proc = NoCalls

ServiceNext ==
    Tick \/ Login \/ Signup \/ Profile \/ ListOrders \/ ListOrdersBAC \/ CreateOrder \/ Respond

ServiceSpec == ServiceInit /\ [][ServiceNext]_vars

(***************************************************************************)
(* What a token text carries, read off the text itself.                    *)
(***************************************************************************)
ThreeSegments(t) == Len(TrimSpace(t)) = 3 /\ TrimSpace(t) # <<EmptySeg>>

\* The third segment decodes to the MAC of segment1 "." segment2.
SignatureMatches(t) ==
    /\ DecodeString(TrimSpace(t)[3]).ok
    /\ DecodeString(TrimSpace(t)[3]).data = HMAC(tokenSecret, <<t[1], t[2]>>)

\* The members of the payload object, as written in the token.
PayloadOf(t) == t[2].bytes

Parsable(t) == DecodeString(t[2]).ok /\ Unmarshal(DecodeString(t[2]).data).ok

\* The exp member as an integer (0 when absent).
ExpOf(t) == IF PayloadOf(t).exp.t = "num" THEN PayloadOf(t).exp.n ELSE 0

\* user_id when present and non-zero, else sub read as a decimal integer, else 0.
ClaimedSubject(t) ==
    LET b == PayloadOf(t)
    IN  IF b.user_id.t = "num" /\ b.user_id.n # 0 THEN b.user_id.n
        ELSE IF b.sub.t = "str" /\ ParseInt(b.sub.s).ok THEN ParseInt(b.sub.s).v
        ELSE 0

Called == res # NoResult

Went(step) == \E i \in 1..Len(res.steps) : res.steps[i] = step

(***************************************************************************)
(* What a listing request asks, read off the request itself.               *)
(***************************************************************************)
Listing(route) == req.route = route /\ req.method = "GET"

AnyListing == Listing("/order/") \/ Listing("/order-bac/")

\* The requested tenant id T.
RequestedID == extractRestaurantID(req.idPart).v

\* The request names an integer tenant id and presents a bearer credential.
WellFormed == extractRestaurantID(req.idPart).ok /\ BearerToken(req.header).ok

PresentedToken == BearerToken(req.header).token

\* The outcome of validating the presented credential when the request was served.
Credential == ValidateAccessToken(users, req.at, PresentedToken)

\* The credential validates to the principal Credential.user.
Authenticated == WellFormed /\ Credential.err = "nil"

PrincipalTenant == Credential.user.RestaurantID

\* The credential was handed out by a login and its exp lies before the serving second.
PresentsExpired == \E i \in issued : i.token = PresentedToken /\ req.at > i.exp

PresentsWronglySigned == ThreeSegments(PresentedToken) /\ ~SignatureMatches(PresentedToken)

Retrieved == \E i \in 1..Len(resp.calls) : resp.calls[i] = "GetOrdersByRestaurant"

\* The stored orders of tenant T as the listing serializes them.
OrdersOf(T) ==
    LET rows == ListByRestaurant(orders, T)
    IN  [i \in 1..Len(rows) |-> orderDTO(rows[i])]

Body(response) ==
    [error |-> response.error, count |-> response.count,
     restaurant_name |-> response.restaurant_name, orders |-> response.orders]

(***************************************************************************)
(* C1: on GET /order/{T} with a credential that validates to principal P:  *)
(* when P's tenant id is non-zero and differs from T the response is 403   *)
(* and GetOrdersByRestaurant is not invoked; when P's tenant id equals T   *)
(* the request passes the ownership check and GetOrdersByRestaurant is     *)
(* invoked for T (an existing T gets its orders).                          *)
(***************************************************************************)
C1_OwnershipEnforced ==
    (Listing("/order/") /\ Authenticated) =>
        /\ (PrincipalTenant # 0 /\ PrincipalTenant # RequestedID) =>
              (resp.status = StatusForbidden /\ ~Retrieved /\ resp.orders = <<>>)
        /\ (PrincipalTenant = RequestedID) =>
              /\ Retrieved
              /\ resp.error # "order data does not belong to your restaurant"
              /\ RequestedID \in DOMAIN restaurants =>
                    (resp.status = StatusOK /\ resp.orders = OrdersOf(RequestedID))

\* A principal of tenant 1 was refused tenant 2's stored orders.
C1_Witness ==
    /\ Listing("/order/") /\ Authenticated
    /\ PrincipalTenant = 1 /\ RequestedID = 2
    /\ OrdersOf(2) # <<>>
    /\ resp.status = StatusForbidden

(***************************************************************************)
(* C2: on GET /order/{T} a validated principal whose tenant id is 0 is     *)
(* never answered 403, whatever T is, and gets the orders of an existing T.*)
(***************************************************************************)
C2_UnscopedNeverForbidden ==
    (Listing("/order/") /\ Authenticated /\ PrincipalTenant = 0) =>
        /\ resp.status # StatusForbidden
        /\ RequestedID \in DOMAIN restaurants =>
              (resp.status = StatusOK /\ resp.orders = OrdersOf(RequestedID))

(***************************************************************************)
(* C3: on GET /order-bac/{T} the response does not depend on the           *)
(* principal's tenant id: any other validated credential of a principal    *)
(* with a different tenant id gets the same status and the same orders for *)
(* the same T in the same store; the status is never 403; an existing T    *)
(* gets its orders.                                                        *)
(***************************************************************************)
C3_BypassIgnoresTenant ==
    (Listing("/order-bac/") /\ Authenticated) =>
        /\ resp.status # StatusForbidden
        /\ RequestedID \in DOMAIN restaurants =>
              (resp.status = StatusOK /\ resp.orders = OrdersOf(RequestedID))
        /\ \A i \in issued :
              LET other == ValidateAccessToken(users, req.at, i.token)
                  again == OrderBACHandler(users, restaurants, orders, req.at,
                                           [req EXCEPT !.header = Header(0, "Bearer", 1, i.token, 0)])
              IN  (other.err = "nil" /\ other.user.RestaurantID # PrincipalTenant) =>
                      (again.status = resp.status /\ again.orders = resp.orders)

\* A principal of tenant 1 listed tenant 2's stored orders while a principal
\* of another tenant holds a valid credential too.
C3_Witness ==
    /\ Listing("/order-bac/") /\ Authenticated
    /\ PrincipalTenant = 1 /\ RequestedID = 2
    /\ resp.status = StatusOK /\ resp.orders # <<>>
    /\ \E i \in issued :
          /\ ValidateAccessToken(users, req.at, i.token).err = "nil"
          /\ ValidateAccessToken(users, req.at, i.token).user.RestaurantID # 1

(***************************************************************************)
(* C4: in both listing variants GetOrdersByRestaurant is invoked only      *)
(* after ValidateAccessToken has succeeded for the request, and a request  *)
(* with an expired or wrongly signed token is answered 401 without orders, *)
(* the same by both variants, for every requested tenant id.               *)
(***************************************************************************)
C4_ValidateBeforeRetrieve ==
    AnyListing =>
        /\ Retrieved =>
              /\ resp.calls = <<"ValidateAccessToken", "GetOrdersByRestaurant">>
              /\ Authenticated
        /\ (WellFormed /\ (PresentsExpired \/ PresentsWronglySigned)) =>
              /\ resp.status = StatusUnauthorized
              /\ resp.orders = <<>> /\ resp.count = 0
              /\ ~Retrieved
              /\ OrderDetailHandler(users, restaurants, orders, req.at, req) = resp
              /\ OrderBACHandler(users, restaurants, orders, req.at, req) = resp

\* A token handed out by a login was presented after its exp for a tenant
\* with stored orders, and refused.
C4_Witness ==
    /\ AnyListing /\ WellFormed /\ PresentsExpired
    /\ OrdersOf(RequestedID) # <<>>
    /\ resp.status = StatusUnauthorized /\ resp.error = "token expired"

(***************************************************************************)
(* C5: for every listing request whose credential is rejected, or whose    *)
(* principal passes the ownership check (tenant id 0 or equal to T), the   *)
(* enforcing and the bypassing variant answer with the same status and the *)
(* same body.                                                              *)
(***************************************************************************)
C5_VariantsAgree ==
    (AnyListing /\ extractRestaurantID(req.idPart).ok
       /\ (~Authenticated \/ PrincipalTenant = 0 \/ PrincipalTenant = RequestedID)) =>
        LET enforcing == OrderDetailHandler(users, restaurants, orders, req.at, req)
            bypassing == OrderBACHandler(users, restaurants, orders, req.at, req)
        IN  /\ resp \in {enforcing, bypassing}
            /\ enforcing.status = bypassing.status
            /\ Body(enforcing) = Body(bypassing)

(***************************************************************************)
(* C6: a token whose third segment does not carry the HMAC of              *)
(* segment1.segment2 under the service secret is rejected with the         *)
(* invalid-token error whatever its payload says; its payload is neither   *)
(* decoded nor parsed and the credential store is not queried.             *)
(***************************************************************************)
C6_SignatureBeforePayload ==
    (Called /\ ThreeSegments(tok) /\ ~SignatureMatches(tok)) =>
        /\ res.err = "ErrInvalidToken"
        /\ res.user = NoUser
        /\ ~Went("DecodePayload")
        /\ ~Went("Unmarshal")
        /\ ~Went("Subject")
        /\ ~Went("Expiry")
        /\ ~Went("GetByID")

\* A wrongly signed token with a stored subject and a past exp was rejected.
C6_Witness ==
    /\ Called /\ ThreeSegments(tok) /\ ~SignatureMatches(tok)
    /\ Parsable(tok)
    /\ ClaimedSubject(tok) = 1
    /\ ExpOf(tok) # 0 /\ ExpOf(tok) < res.unixNow
    /\ res.err = "ErrInvalidToken"

(***************************************************************************)
(* C7: every single-bit change to a segment of an issued token makes       *)
(* ValidateAccessToken fail with the invalid-token error.                  *)
(***************************************************************************)
Tampered == \E i \in issued : tok \in BitFlips(i.token)

C7_TamperDetection ==
    (Called /\ Tampered) => (res.err = "ErrInvalidToken" /\ res.user = NoUser)

(***************************************************************************)
(* C8: an issued token, presented unchanged at a time not after its exp,   *)
(* is accepted; the user returned is the one it was issued to, and the     *)
(* subject and expiry it carries are those issued.                         *)
(***************************************************************************)
C8_RoundTrip ==
    \A i \in issued :
        (Called /\ tok = i.token /\ res.unixNow <= i.exp) =>
            /\ res.err = "nil"
            /\ res.user.ID = i.uid
            /\ res.user \in users
            /\ SubjectID(Unmarshal(DecodeString(tok[2]).data)) = i.uid
            /\ Unmarshal(DecodeString(tok[2]).data).Exp = i.exp
            /\ Unmarshal(DecodeString(tok[2]).data).Issued = i.iat

\* An issued token was accepted in the very second it expires, after its issue.
C8_Witness ==
    \E i \in issued :
        /\ Called /\ tok = i.token
        /\ res.unixNow = i.exp /\ i.iat < i.exp
        /\ res.err = "nil" /\ res.user.ID = i.uid

(***************************************************************************)
(* C9: a correctly signed token with a parsable payload and a non-zero     *)
(* subject is reported expired exactly when exp is non-zero and the unix   *)
(* time is strictly greater than exp: a non-zero exp = now - 1 is expired, *)
(* exp = now, exp = now + 1 and exp = 0 are not.                           *)
(***************************************************************************)
WellSigned(t) == ThreeSegments(t) /\ SignatureMatches(t) /\ Parsable(t)

C9_ExpiryRule ==
    (Called /\ WellSigned(tok) /\ ClaimedSubject(tok) # 0) =>
        /\ (res.err = "ErrTokenExpired") <=> (ExpOf(tok) # 0 /\ res.unixNow > ExpOf(tok))
        /\ (ExpOf(tok) = res.unixNow - 1 /\ ExpOf(tok) # 0) => res.err = "ErrTokenExpired"
        /\ (ExpOf(tok) \in {0, res.unixNow, res.unixNow + 1}) => res.err # "ErrTokenExpired"

\* exp = now was accepted for a stored subject.
C9_Witness ==
    /\ Called /\ WellSigned(tok) /\ ClaimedSubject(tok) = 1
    /\ ExpOf(tok) = res.unixNow
    /\ res.err = "nil"

(***************************************************************************)
(* C10: the subject is user_id when present and non-zero, otherwise sub    *)
(* parsed as a decimal integer; with neither, the token is rejected as     *)
(* invalid before the expiry check and before any lookup.                  *)
(***************************************************************************)
C10_SubjectExtraction ==
    (Called /\ WellSigned(tok)) =>
        /\ (ClaimedSubject(tok) = 0) =>
              /\ res.err = "ErrInvalidToken"
              /\ Went("Subject") /\ ~Went("Expiry") /\ ~Went("GetByID")
        /\ (ClaimedSubject(tok) # 0) => (Went("Expiry") /\ res.err # "nil" => res.user = NoUser)
        /\ (ClaimedSubject(tok) # 0 /\ ~(ExpOf(tok) # 0 /\ res.unixNow > ExpOf(tok))) =>
              /\ Went("GetByID")
              /\ (\E u \in users : u.ID = ClaimedSubject(tok)) =>
                    (res.err = "nil" /\ res.user.ID = ClaimedSubject(tok))
              /\ (~\E u \in users : u.ID = ClaimedSubject(tok)) => res.err = "ErrInvalidToken"

\* The subject came from sub: user_id is 0 and sub names a stored user.
C10_Witness ==
    /\ Called /\ WellSigned(tok)
    /\ PayloadOf(tok).user_id = Num(0)
    /\ PayloadOf(tok).sub = Str(<<"1">>)
    /\ res.err = "nil" /\ res.user.ID = 1

(***************************************************************************)
(* C11: ValidateAccessToken reports the token-expired error only for a     *)
(* correctly signed, parsable token with a non-zero subject whose exp has  *)
(* passed; every other rejection (segment count, undecodable signature,    *)
(* signature mismatch, unparsable payload, missing subject, subject not in *)
(* the store) is the one invalid-token error, with no user returned, so a  *)
(* signature failure and an unknown account look the same to the caller.   *)
(***************************************************************************)
ExpPassed(t, unixNow) == ExpOf(t) # 0 /\ unixNow > ExpOf(t)

SubjectStored(t) == \E u \in users : u.ID = ClaimedSubject(t)

C11_TokenErrors ==
    Called =>
        /\ res.err \in {"nil", "ErrInvalidToken", "ErrTokenExpired"}
        /\ res.err # "nil" => res.user = NoUser
        /\ res.err = "ErrTokenExpired" =>
              (WellSigned(tok) /\ ClaimedSubject(tok) # 0 /\ ExpPassed(tok, res.unixNow))
        /\ ~ThreeSegments(tok) => res.err = "ErrInvalidToken"
        /\ (ThreeSegments(tok) /\ ~DecodeString(TrimSpace(tok)[3]).ok) => res.err = "ErrInvalidToken"
        /\ (ThreeSegments(tok) /\ ~SignatureMatches(tok)) => res.err = "ErrInvalidToken"
        /\ (ThreeSegments(tok) /\ SignatureMatches(tok) /\ ~Parsable(tok)) =>
              res.err = "ErrInvalidToken"
        /\ (WellSigned(tok) /\ ClaimedSubject(tok) = 0) => res.err = "ErrInvalidToken"
        /\ (WellSigned(tok) /\ ClaimedSubject(tok) # 0 /\ ~ExpPassed(tok, res.unixNow)
              /\ ~SubjectStored(tok)) => res.err = "ErrInvalidToken"

\* A correctly signed, unexpired token of a subject that is not stored was
\* rejected as invalid.
C11_Witness ==
    /\ Called /\ WellSigned(tok)
    /\ ClaimedSubject(tok) = 7 /\ ~SubjectStored(tok)
    /\ ~ExpPassed(tok, res.unixNow)
    /\ res.err = "ErrInvalidToken" /\ res.user = NoUser

(***************************************************************************)
(* C12: authorization uses the tenant recorded on the account when the     *)
(* request is served, never the restaurant_id written in the token: with a *)
(* token issued while the account had tenant A, once the account has       *)
(* tenant B the ownership check of GET /order/{T} and the mismatch check   *)
(* and default tenant of POST /order/create follow B; and tokens of the    *)
(* same subject that differ only in the embedded restaurant_id get the     *)
(* same response.                                                          *)
(***************************************************************************)
Creating == req.route = "/order/create" /\ req.method = "POST"

\* The token of the request is the issued token i, presented as a bearer credential.
Presents(i) == BearerToken(req.header).ok /\ PresentedToken = i.token

\* The account the token was issued to, as stored now.
Account(i) == GetByID(users, i.uid).user

EmbeddedTenant(t) == IntField(t[2].bytes.restaurant_id)

\* The token t with another restaurant_id in its payload, signed by the service.
WithRestaurant(t, r) ==
    TokenOf(<<t[1], encode(Bytes([t[2].bytes EXCEPT !.restaurant_id = Num(r)]))>>, tokenSecret)

WithToken(r, t) == [r EXCEPT !.header = Header(0, "Bearer", 1, t, 0)]

TenantInputs == {0} \cup DOMAIN restaurants

C12_AccountTenantDecides ==
    \A i \in issued :
        /\ (Listing("/order/") /\ extractRestaurantID(req.idPart).ok /\ Presents(i)) =>
              /\ (resp.error = "order data does not belong to your restaurant")
                    <=> (Account(i).RestaurantID # 0 /\ Account(i).RestaurantID # RequestedID)
              /\ \A r \in TenantInputs :
                    OrderDetailHandler(users, restaurants, orders, req.at,
                                       WithToken(req, WithRestaurant(i.token, r))) = resp
        /\ (Creating /\ req.body.ok /\ Presents(i)) =>
              /\ (resp.error = "restaurant mismatch")
                    <=> (/\ Account(i).RestaurantID # 0
                         /\ req.body.restaurant_id # 0
                         /\ Account(i).RestaurantID # req.body.restaurant_id)
              /\ resp.status = StatusCreated =>
                    resp.tenant = IF req.body.restaurant_id = 0 /\ Account(i).RestaurantID # 0
                                  THEN Account(i).RestaurantID
                                  ELSE req.body.restaurant_id
              /\ \A r \in TenantInputs :
                    OrderCreateHandler(users, restaurants, ingredients, orders, Ticks,
                                       WithToken(req, WithRestaurant(i.token, r)), req.fault).resp
                    = OrderCreateHandler(users, restaurants, ingredients, orders, Ticks,
                                         req, req.fault).resp

\* A token that says restaurant 1, of an account since linked to restaurant 2,
\* was refused restaurant 1's orders.
C12_Witness ==
    \E i \in issued :
        /\ Listing("/order/") /\ Presents(i)
        /\ EmbeddedTenant(i.token) = 1 /\ Account(i).RestaurantID = 2
        /\ RequestedID = 1
        /\ resp.status = StatusForbidden

(***************************************************************************)
(* C13: on the listing, profile and order-creation endpoints a request     *)
(* that gets as far as its credential has its token validated only when    *)
(* the Authorization value is exactly "Bearer ", one space, and a          *)
(* non-empty token; every other value (none, another scheme or case,       *)
(* spaces in front, more than one space, no token) is answered 401         *)
(* "missing or invalid authorization header" with no token validated.      *)
(***************************************************************************)
ReadsCredential ==
    \/ AnyListing /\ extractRestaurantID(req.idPart).ok
    \/ req.route = "/profile" /\ req.method = "GET"
    \/ Creating

ExactBearer(h) ==
    h.lead = 0 /\ h.scheme = "Bearer" /\ h.gap = 1 /\ h.trail = 0 /\ h.token # <<EmptySeg>>

C13_StrictBearer ==
    ReadsCredential =>
        /\ ~ExactBearer(req.header) =>
              /\ resp.status = StatusUnauthorized
              /\ resp.error = "missing or invalid authorization header"
              /\ resp.calls = <<>>
        /\ ExactBearer(req.header) => resp.error # "missing or invalid authorization header"

(***************************************************************************)
(* C14: CreateOrders is fail-fast in a fixed order.  The checks, in order: *)
(* tenant id > 0, items non-empty, tenant exists, then for each item in    *)
(* input order ingredient id > 0, quantity > 0, ingredient exists.  A call *)
(* makes the checks of that sequence up to and including the first one     *)
(* that fails and no other, and returns the error of that check; it makes  *)
(* all of them and passes validation when none fails.                      *)
(***************************************************************************)
\* The checks of a call on items, in the order the claim gives.
CheckSequence(items) ==
    [k \in 1..(3 + 3 * Len(items)) |->
        IF k = 1 THEN <<"restaurantID", 0>>
        ELSE IF k = 2 THEN <<"items", 0>>
        ELSE IF k = 3 THEN <<"restaurantRepo.Exists", 0>>
        ELSE IF (k - 4) % 3 = 0 THEN <<"IngredientID", (k - 4) \div 3 + 1>>
        ELSE IF (k - 4) % 3 = 1 THEN <<"Number", (k - 4) \div 3 + 1>>
        ELSE <<"ingredientRepo.Exists", (k - 4) \div 3 + 1>>]

\* Whether the check fails on the call's arguments.
Fails(check, rid, items) ==
    IF check[1] = "restaurantID" THEN ~(rid > 0)
    ELSE IF check[1] = "items" THEN items = <<>>
    ELSE IF check[1] = "restaurantRepo.Exists" THEN rid \notin DOMAIN restaurants
    ELSE IF check[1] = "IngredientID" THEN ~(items[check[2]].IngredientID > 0)
    ELSE IF check[1] = "Number" THEN ~(items[check[2]].Number > 0)
    ELSE items[check[2]].IngredientID \notin ingredients

ErrorOf(check) ==
    IF check[1] = "restaurantID" THEN "ErrOrderInvalidRestaurantID"
    ELSE IF check[1] = "items" THEN "ErrOrderEmptyItems"
    ELSE IF check[1] = "restaurantRepo.Exists" THEN "ErrOrderRestaurantNotFound"
    ELSE IF check[1] = "IngredientID" THEN "ErrOrderInvalidIngredientID"
    ELSE IF check[1] = "Number" THEN "ErrOrderInvalidNumber"
    ELSE "ErrOrderIngredientNotFound"

\* A call of CreateOrders has returned.
Returned == res.err # "none"

ValidationErrors ==
    {"ErrOrderInvalidRestaurantID", "ErrOrderEmptyItems", "ErrOrderRestaurantNotFound",
     "ErrOrderInvalidIngredientID", "ErrOrderInvalidNumber", "ErrOrderIngredientNotFound"}

C14_FailFast ==
    Returned =>
        LET all == CheckSequence(res.items)
            made == res.checks
            n == Len(made)
        IN  /\ n >= 1 /\ n <= Len(all)
            /\ made = SubSeq(all, 1, n)
            /\ \A k \in 1..(n - 1) : ~Fails(made[k], res.rid, res.items)
            /\ IF Fails(made[n], res.rid, res.items)
               THEN res.err = ErrorOf(made[n])
               ELSE n = Len(all) /\ res.err \notin ValidationErrors

\* A call returned the error of its second item after the first item
\* passed its three checks.
C14_Witness ==
    /\ Returned
    /\ Len(res.items) >= 2
    /\ res.err = "ErrOrderIngredientNotFound"
    /\ res.checks[Len(res.checks)] = <<"ingredientRepo.Exists", 2>>
    /\ Len(res.checks) = 9

(***************************************************************************)
(* C15: order creation is atomic.  When a call of CreateOrders has         *)
(* returned, the rows it added to the orders table are one row per item,   *)
(* in input order, if it returned no error, and none if it returned an     *)
(* error: a validation error, a failed INSERT after earlier INSERTs of the *)
(* batch, or a failed COMMIT.                                              *)
(***************************************************************************)
C15_AllOrNothing ==
    Returned =>
        IF res.err = "nil"
        THEN /\ Len(res.added) = Len(res.items)
             /\ \A i \in 1..Len(res.items) :
                  /\ res.added[i].RestaurantID = res.rid
                  /\ res.added[i].IngredientID = res.items[i].IngredientID
                  /\ res.added[i].Number = res.items[i].Number
        ELSE res.added = <<>>

\* The last INSERT of a batch of two failed after the first had succeeded.
C15_Witness ==
    /\ Returned
    /\ res.err = "store orders"
    /\ Len(res.items) = 2
    /\ res.fault = 2
    /\ res.added = <<>>
    /\ res.items[1].IngredientID \in ingredients

(***************************************************************************)
(* C16: order codes never collide.  Two rows of one batch get different    *)
(* codes; two calls of CreateOrders that are in progress at the same time  *)
(* hold batches with no code in common; and a call whose input passed      *)
(* validation and whose transaction met no storage fault returns no error, *)
(* whatever other calls do.                                                *)
(***************************************************************************)
\* The codes of the batch that the call in progress c will insert.
CodesOfCall(c) == Codes(PersistItems(c.rid, c.stamp, c.items))

C16_CodesNeverCollide ==
    /\ \A p \in DOMAIN proc :
         proc[p] # Idle => Cardinality(CodesOfCall(proc[p])) = Len(proc[p].items)
    /\ \A p, q \in DOMAIN proc :
         (p # q /\ proc[p] # Idle /\ proc[q] # Idle)
            => CodesOfCall(proc[p]) \cap CodesOfCall(proc[q]) = {}
    /\ (Returned /\ res.err \notin ValidationErrors /\ res.fault = 0) => res.err = "nil"

(***************************************************************************)
(* C17: sign-up then login.  After SignUp(username, password, R) returned  *)
(* an account, Authenticate with the same username and the same password   *)
(* succeeds, and the token it issues carries restaurant_id = R, the        *)
(* restaurant id stored on the account.                                    *)
(***************************************************************************)
LoggedInAfterSignUp == res # NoResult /\ res.op = "Authenticate"

C17_SignUpThenLogin ==
    LoggedInAfterSignUp =>
        /\ res.err = "nil"
        /\ EmbeddedTenant(res.token) = res.rid
        /\ GetByUsername(users, StrTrimSpace(res.username)).user.RestaurantID = res.rid

(***************************************************************************)
(* C18: username uniqueness under concurrency.  No two accounts share a    *)
(* username.  A SignUp that passed the existence pre-check and whose       *)
(* INSERT meets an account of the same username, created meanwhile by      *)
(* another call, creates nothing and returns the username-taken error,     *)
(* which the handler answers with 409 and not with an internal error.      *)
(***************************************************************************)
SignedUp == res # NoResult /\ res.op = "SignUp"

C18_UsernameUnique ==
    /\ \A u, v \in users : u.Username = v.Username => u = v
    /\ (SignedUp /\ res.clash) =>
          /\ res.err = "ErrUsernameTaken"
          /\ res.status = StatusConflict
          /\ res.user = NoUser
    /\ (SignedUp /\ res.err = "nil") =>
          /\ ~res.clash
          /\ res.user \in users
          /\ res.user.Username = StrTrimSpace(res.username)

\* Both calls passed the pre-check for the same username; the second INSERT
\* met the account the first had created.
C18_Witness ==
    /\ SignedUp
    /\ res.clash
    /\ res.status = StatusConflict
    /\ \E u \in users : u.Username = StrTrimSpace(res.username) /\ u.ID = Cardinality(InitUsers) + 1

(***************************************************************************)
(* C19: status codes for absent resources.  On every endpoint, a request   *)
(* that is well-formed and authorized and fails because the restaurant it  *)
(* asks for or submits, or an ingredient it submits, is not stored is      *)
(* answered with 404; 400 is left to malformed input.                      *)
(***************************************************************************)
Reached(call) == \E i \in 1..Len(resp.calls) : resp.calls[i] = call

\* The first check of the sequence that fails on the arguments, or <<"none", 0>>.
FirstFailing(rid, items) ==
    LET all == CheckSequence(items)
        failing == {k \in 1..Len(all) :
                       /\ Fails(all[k], rid, items)
                       /\ \A j \in 1..(k - 1) : ~Fails(all[j], rid, items)}
    IN  IF failing = {} THEN <<"none", 0>> ELSE all[CHOOSE k \in failing : TRUE]

\* The request reached the service and what stopped it there is a lookup
\* that found nothing.
FailsForAbsence ==
    /\ req # NoRequest
    /\ \/ /\ AnyListing
          /\ Reached("GetOrdersByRestaurant")
          /\ RequestedID > 0
          /\ RequestedID \notin DOMAIN restaurants
       \/ /\ req.route = "/profile"
          /\ Reached("GetProfile")
          /\ Credential.user.RestaurantID > 0
          /\ Credential.user.RestaurantID \notin DOMAIN restaurants
       \/ /\ Creating
          /\ Reached("CreateOrders")
          /\ FirstFailing(PayloadRestaurant(Credential.user, req.body.restaurant_id),
                          req.body.orders)[1] \in {"restaurantRepo.Exists", "ingredientRepo.Exists"}
       \/ /\ req.route = "/signup"
          /\ Reached("SignUp")
          /\ isValidUsername(StrTrimSpace(req.body.username))
          /\ isValidPassword(req.body.password)
          /\ req.body.restaurant_id > 0
          /\ req.body.restaurant_id \notin DOMAIN restaurants

C19_AbsentIsNotFound == FailsForAbsence => resp.status = StatusNotFound

(***************************************************************************)
(* C20: every token that generateToken issues carries exp > iat, both in   *)
(* whole unix seconds, whatever lifetime the service was constructed with: *)
(* a positive one below a second, a second or more, or a non-positive one  *)
(* that NewUser replaced by the default.                                   *)
(***************************************************************************)
IatOf(t) == IF PayloadOf(t).iat.t = "num" THEN PayloadOf(t).iat.n ELSE 0

C20_ExpAfterIat == \A i \in issued : ExpOf(i.token) > IatOf(i.token)

(***************************************************************************)
(* C21: tenant binding at order creation.  When POST /order/create is      *)
(* served for a validated principal whose account has tenant id P # 0,     *)
(* every row the request adds to the orders table carries restaurant_id P; *)
(* a payload restaurant_id that is neither 0 nor P is answered 403 and     *)
(* adds nothing; a payload restaurant_id of 0 is replaced by P, so a       *)
(* request answered 201 has added one row per item for P.  The rows one    *)
(* request adds all carry the same restaurant_id, whoever the principal.   *)
(***************************************************************************)
\* The rows the request served last added at the end of the orders table.
AddedRows == SubSeq(orders, req.before + 1, Len(orders))

\* POST /order/create with a body that decodes and a token that validates.
CreatingAsPrincipal ==
    /\ Creating
    /\ BearerToken(req.header).ok
    /\ req.body.ok
    /\ Credential.err = "nil"

C21_TenantBinding ==
    Creating =>
        /\ Len(orders) >= req.before
        /\ \A k, l \in DOMAIN AddedRows : AddedRows[k].RestaurantID = AddedRows[l].RestaurantID
        /\ (CreatingAsPrincipal /\ PrincipalTenant # 0) =>
              /\ \A k \in DOMAIN AddedRows : AddedRows[k].RestaurantID = PrincipalTenant
              /\ (req.body.restaurant_id \notin {0, PrincipalTenant}) =>
                    (resp.status = StatusForbidden /\ AddedRows = <<>>)
              /\ (req.body.restaurant_id = 0 /\ resp.status = StatusCreated) =>
                    Len(AddedRows) = Len(req.body.orders)

\* A principal of tenant 1 sent a batch of two with restaurant_id 0 and the
\* two rows were stored for tenant 1.
C21_Witness ==
    /\ CreatingAsPrincipal
    /\ PrincipalTenant = 1
    /\ req.body.restaurant_id = 0
    /\ Len(req.body.orders) = 2
    /\ resp.status = StatusCreated
    /\ Len(AddedRows) = 2
    /\ AddedRows[1].RestaurantID = 1
    /\ AddedRows[2].RestaurantID = 1

(***************************************************************************)
(* C22: cross-tenant isolation of the enforcing endpoint.  After any       *)
(* sequence of sign-ups, log-ins, order creations and listings, a 200      *)
(* response of GET /order/{T} to a validated principal whose account has   *)
(* tenant id P # 0 contains only orders with restaurant_id P, and its      *)
(* count is the number of orders it contains.                              *)
(***************************************************************************)
C22_TenantIsolation ==
    (Listing("/order/") /\ Authenticated /\ PrincipalTenant # 0 /\ resp.status = StatusOK) =>
        /\ \A k \in DOMAIN resp.orders : resp.orders[k].restaurant_id = PrincipalTenant
        /\ resp.count = Len(resp.orders)

\* A principal of tenant 1 listed its orders, one of them created by a
\* request before, while orders of tenant 2 were stored.
C22_Witness ==
    /\ Listing("/order/") /\ Authenticated
    /\ PrincipalTenant = 1
    /\ resp.status = StatusOK
    /\ resp.count >= 2
    /\ \E k \in DOMAIN resp.orders : resp.orders[k].code[2] # 0
    /\ \E k \in DOMAIN orders : orders[k].RestaurantID = 2

(***************************************************************************)
(* C23: only an authenticated order creation changes the order store.  A   *)
(* step changes the orders table only when it serves POST /order/create,   *)
(* the token was validated, CreateOrders was called and the answer is 201. *)
(* A step that serves a listing, the bypassing listing, the profile or the *)
(* login endpoint, or any request answered 400, 401, 403, 404 or 405,      *)
(* leaves the users and the orders as they were.                           *)
(***************************************************************************)
ReadOnlyRoutes == {"/order/", "/order-bac/", "/profile", "/login"}

RefusalStatuses ==
    {StatusBadRequest, StatusUnauthorized, StatusForbidden, StatusNotFound, StatusMethodNotAllowed}

C23_OnlyCreationWrites ==
    [][/\ (orders' # orders) =>
             /\ req = NoRequest
             /\ req'.route = "/order/create"
             /\ req'.method = "POST"
             /\ resp'.status = StatusCreated
             /\ resp'.calls = <<"ValidateAccessToken", "CreateOrders">>
       /\ (req = NoRequest /\ req' # NoRequest
             /\ (req'.route \in ReadOnlyRoutes \/ resp'.status \in RefusalStatuses)) =>
             (orders' = orders /\ users' = users)
      ]_vars

\* An account without restaurant created an order for tenant 2.
C23_Witness ==
    /\ CreatingAsPrincipal
    /\ PrincipalTenant = 0
    /\ req.body.restaurant_id = 2
    /\ resp.status = StatusCreated
    /\ Len(AddedRows) = 1
    /\ AddedRows[1].RestaurantID = 2

(***************************************************************************)
(* C24: no existence leak through the enforcing endpoint.  The ownership   *)
(* check runs before the restaurant is looked up: a validated principal    *)
(* whose account has tenant id P # 0 and who requests GET /order/{T} with  *)
(* T # P gets the 403 of the ownership check, and gets the same response   *)
(* from a restaurants table with a row T and from one without.  A 404 is   *)
(* given only to a validated principal the ownership check let through.    *)
(***************************************************************************)
\* the restaurants table with and without a row of the given id
RestaurantsWith(rests, id) == IF id \in DOMAIN rests THEN rests ELSE rests @@ (id :> "Com Three")

RestaurantsWithout(rests, id) == [k \in DOMAIN rests \ {id} |-> rests[k]]

NotYours ==
    writeError(StatusForbidden, "order data does not belong to your restaurant",
               <<"ValidateAccessToken">>)

C24_NoExistenceLeak ==
    /\ (Listing("/order/") /\ Authenticated /\ PrincipalTenant # 0 /\ RequestedID # PrincipalTenant) =>
          /\ resp = NotYours
          /\ ~Reached("GetOrdersByRestaurant")
          /\ OrderDetailHandler(users, RestaurantsWith(restaurants, RequestedID), orders, req.at, req)
                = resp
          /\ OrderDetailHandler(users, RestaurantsWithout(restaurants, RequestedID), orders, req.at, req)
                = resp
    /\ (Listing("/order/") /\ resp.status = StatusNotFound) =>
          /\ Authenticated
          /\ ~OwnershipDenies(Credential.user, RequestedID)

\* A principal of tenant 1 asked for the orders of tenant 3, which is not
\* in the restaurants table, and was refused by the ownership check.
C24_Witness ==
    /\ Listing("/order/") /\ Authenticated
    /\ PrincipalTenant = 1
    /\ RequestedID = 3
    /\ RequestedID \notin DOMAIN restaurants
    /\ resp = NotYours

====
